---------------------------- MODULE Spec2Model ----------------------------
(***************************************************************************)
(* Task dispatch and worker lifecycle of the distributed task processing   *)
(* system: the scheduler (internal/task/scheduler.go), the coordinator     *)
(* with priority queues (coordinator.go, priority-queue revision), the     *)
(* worker (internal/worker/worker.go) and the work stealer (steal.go).     *)
(* The shared store is Redis; every action below is one goroutine step     *)
(* that ends in at most one Redis command, so that the interleavings of    *)
(* the commands of concurrent loops are the interleavings of the model.    *)
(***************************************************************************)
EXTENDS Integers, Sequences, FiniteSets, TLC

\* ------------------------------------------------------------------ bounds
NumTasks == 2          \* task ids NewTask may generate
NumWorkers == 2        \* worker processes
MaxLapses == 1         \* times the clock may jump past the liveness gate
MaxClock == 3          \* seconds the clock may advance one by one
MaxRetryCount == 36    \* retry counts reached by repeated RetryTask calls
NumLow == 10           \* priority-1 tasks of the pre-emption scenario
NumStealTasks == 3     \* tasks in the victim's inbox of the stealing scenario
NumDepTasks == 3       \* task ids of the dependency scenarios
MaxLimit == 2          \* largest max_retries option of the retry-limit scenarios
MaxDs == 55
MaxBeatClock == 45
MaxAdminCalls == 2
MaxQueueLength == 7
MaxIdle == 2            \* tenths of a second the latency scenario's clock runs

\* ------------------------------------------------------- program constants
NumPriorities == 10    \* for priority := 10; priority > 0; priority--
BatchSize == 5         \* ZRange(ctx, queueKey, 0, 4)
LiveTimeout == 30      \* now-lastSeen <= 30
TaskChanCap == 1000    \* make(chan *task.Task, 1000)
ResultChanCap == 1000  \* make(chan *task.Result, 1000)
PoolSize == 1          \* NewWorker: poolSize: 1
StealThreshold == 2    \* if queueLen > 2
OverdueBonus == 1000000 \* score -= 1000000
DefaultMaxRetries == 3 \* NewTask: MaxRetries: 3
Int64Bits == 64        \* width of time.Duration (int64 nanoseconds)
SecondOdd == 1953125   \* time.Second = 1000000000 ns = 1953125 * 2^9
SecondShift == 9
TicksPerSecond == 10   \* time.NewTicker(100 * time.Millisecond)
MonitorSeconds == 5
HeartbeatSeconds == 10
ScalerSeconds == 10
CooldownSeconds == 30
ScaleStep == 2    \* time.NewTicker(5 * time.Second)

TaskIds == 1..NumTasks
DepIds == 1..NumDepTasks
WorkerIds == 1..NumWorkers
Priorities == 1..NumPriorities
SubmitPriorities == {1, NumPriorities}

\* ------------------------------------------------------------- data model
\* time.Time of the retry schedule: the zero Time, or `from` (seconds) plus a
\* Duration of mant * 2^exp nanoseconds (the int64 the code computed, wrapped).
ZeroTime == [zero |-> TRUE, from |-> 0, mant |-> 0, exp |-> 0]

\* task.NewTask
NewTask(id) ==
    [id |-> id, status |-> "pending", priority |-> 1, deps |-> {},
     retry_count |-> 0, max_retries |-> DefaultMaxRetries,
     has_deadline |-> FALSE, deadline |-> 0, next_retry_at |-> ZeroTime]

\* task.Result as processTask fills it
NewResult(t, w) ==
    [task_id |-> t.id, status |-> "completed", worker_id |-> w, retry_count |-> 0]

\* Redis hashes: maps with a dynamic domain
MapSet(f, k, v) == [x \in (DOMAIN f) \cup {k} |-> IF x = k THEN v ELSE f[x]]
MapDel(f, k) == [x \in (DOMAIN f) \ {k} |-> f[x]]
EmptyMap == << >>

Max(S) == CHOOSE x \in S : \A y \in S : y <= x
Min(S) == CHOOSE x \in S : \A y \in S : x <= y

\* Redis sorted set order: by score, then by member bytes (the JSON text starts
\* with the id; entries of one id differ in retry_count)
EntryBefore(a, b) ==
    \/ a.score < b.score
    \/ a.score = b.score /\ a.task.id < b.task.id
    \/ a.score = b.score /\ a.task.id = b.task.id
         /\ a.task.retry_count < b.task.retry_count

RECURSIVE ZRange(_, _)
\* ZRange(key, 0, n-1): the members of the n lowest entries, in order
ZRange(q, n) ==
    IF n = 0 \/ q = {} THEN << >>
    ELSE LET e == CHOOSE x \in q : \A y \in q \ {x} : ~EntryBefore(y, x)
         IN  <<e.task>> \o ZRange(q \ {e}, n - 1)

\* ZAdd: a member is in a sorted set once; adding it again replaces its score
ZAdd(q, score, t) == {e \in q : e.task # t} \cup {[score |-> score, task |-> t]}
ZRem(q, t) == {e \in q : e.task # t}

QueuedIds(p, qs) == {e.task.id : e \in qs[p]}

\* -------------------------------------------------------------- variables
VARIABLES
    now,          \* wall clock, seconds
    created,      \* task ids NewTask has generated
    taskObj,      \* the submitter's in-memory *Task, by id
    queues,       \* tasks:priority:<p> sorted sets
    waiting,      \* tasks:waiting:<id> hashes (field "task")
    depWaiters,   \* tasks:dependencies:<id> sets
    registry,     \* "workers" hash: id -> last heartbeat
    inbox,        \* worker:<w>:tasks hashes
    processing,   \* worker:<w>:processing hashes
    outbox,       \* worker:<w>:results hashes
    results,      \* "results" hash
    failedTasks,  \* "failed_tasks" hash
    legacyTasks,  \* "tasks" list
    liveWorkers,  \* Coordinator.workers (sync.Map), its keys
    dist,         \* distributeWork: pc, availableWorkers, priority, result
    coll,         \* collectResults: pc, workerID, results
    mon,          \* monitorWorkers: pc, workers, now, workerID, tasks
    alive,        \* worker process running
    tasksChan,    \* Worker.tasks
    resultsChan,  \* Worker.results
    chk,          \* checkForWork: pc, tasks, taskID
    exec,         \* processTask goroutines: pc, task
    steal,        \* WorkStealer: pc, target, tasks, stolen, stealCount, taskID
    sched,        \* a ScheduleTask call in progress
    compl,        \* an OnTaskComplete call in progress
    hist          \* history of the run, read by the properties only

vars == <<now, created, taskObj, queues, waiting, depWaiters, registry, inbox,
          processing, outbox, results, failedTasks, legacyTasks, liveWorkers,
          dist, coll, mon, alive, tasksChan, resultsChan, chk, exec, steal,
          sched, compl, hist>>

storeVars == <<queues, waiting, depWaiters, registry, inbox, processing, outbox,
               results, failedTasks, legacyTasks>>
coordVars == <<liveWorkers, dist, coll, mon>>
workerVars == <<alive, tasksChan, resultsChan, chk, exec, steal>>
schedVars == <<taskObj, sched, compl>>

DistIdle == [pc |-> "idle", avail |-> << >>, prio |-> 0, batch |-> << >>]
CollIdle == [pc |-> "idle", w |-> 0, snap |-> EmptyMap, cur |-> 0]
MonIdle == [pc |-> "idle", snap |-> EmptyMap, at |-> 0, w |-> 0, tasks |-> EmptyMap]
ChkIdle == [pc |-> "idle", snap |-> EmptyMap, cur |-> 0]
ExecIdle == [pc |-> "idle", task |-> NewTask(0)]
StealIdle == [pc |-> "idle", todo |-> {}, target |-> 0, snap |-> EmptyMap,
              stolen |-> 0, count |-> 0, cur |-> 0, queueLen |-> 0, read |-> 0]
SchedIdle == [pc |-> "idle", task |-> NewTask(0), todo |-> {}]
ComplIdle == [pc |-> "idle", id |-> 0, todo |-> {}, task |-> NewTask(0), deps |-> {}]
HistInit ==
    [tickTop |-> 0, firstAssign |-> 0, enqSince |-> {},
     salvageDue |-> {}, taken |-> [w \in WorkerIds |-> {}], done |-> << >>,
     deps |-> << >>, parked |-> {}, direct |-> {}, early |-> {}, notified |-> {},
     refused |-> {}, hdelFailed |-> {}, ds |-> 0, pending |-> {},
     cancelled |-> {}, returned |-> {}, adminCalls |-> 0,
     scaler |-> [started |-> FALSE, min |-> 0, max |-> 0, active |-> 0, pool |-> 0,
                 idle |-> 0, queue |-> 0, since |-> 0, last |-> "none"],
     workerStarted |-> FALSE, executors |-> 0, unscanned |-> {}]

\* The state after the coordinator's Start (cleanup done, loops started), with
\* the tasks `ids` submitted at priority 1, the workers `reg` registered at
\* time 0, `live` of them seen by monitorWorkers, and the processes `up` running.
\* Init: every worker registered, none yet seen by monitorWorkers' first tick.
InitWith(ids, reg, live, up) ==
    /\ now = 0
    /\ created = ids
    /\ taskObj = EmptyMap
    /\ queues = [p \in Priorities |->
                   IF p = 1 THEN {[score |-> 0, task |-> NewTask(id)] : id \in ids}
                   ELSE {}]
    /\ waiting = EmptyMap
    /\ depWaiters = [d \in DepIds |-> {}]
    /\ registry = [w \in reg |-> 0]
    /\ inbox = [w \in WorkerIds |-> EmptyMap]
    /\ processing = [w \in WorkerIds |-> EmptyMap]
    /\ outbox = [w \in WorkerIds |-> EmptyMap]
    /\ results = EmptyMap
    /\ failedTasks = EmptyMap
    /\ legacyTasks = << >>
    /\ liveWorkers = live
    /\ dist = DistIdle
    /\ coll = CollIdle
    /\ mon = MonIdle
    /\ alive = [w \in WorkerIds |-> w \in up]
    /\ tasksChan = [w \in WorkerIds |-> << >>]
    /\ resultsChan = [w \in WorkerIds |-> << >>]
    /\ chk = [w \in WorkerIds |-> ChkIdle]
    /\ exec = [w \in WorkerIds |-> [e \in 1..PoolSize |-> ExecIdle]]
    /\ steal = [w \in WorkerIds |-> StealIdle]
    /\ sched = SchedIdle
    /\ compl = ComplIdle
    /\ hist = HistInit

Init == InitWith({}, WorkerIds, {}, WorkerIds)

\* ------------------------------------------------------------ environment
\* The orders in which a Go map (or sync.Map) range may yield the keys of S
Orders(S) ==
    {s \in [1..Cardinality(S) -> S] : \A i, j \in 1..Cardinality(S) : i # j => s[i] # s[j]}

\* uuid.New(): an id not generated before (the model numbers them in order)
FreshIn(ids) == IF ids \subseteq created THEN {} ELSE {Min(ids \ created)}
FreshIds == FreshIn(TaskIds)

HighestNonEmpty(qs) ==
    IF \E p \in Priorities : qs[p] # {} THEN Max({p \in Priorities : qs[p] # {}}) ELSE 0

\* Server.handleSubmitTask (and main.submitAndMonitor): NewTask, priority and
\* retries from the request, ZAdd on tasks:priority:<p> with score = now
SubmitTask(id, p, r) ==
    /\ id \notin created
    /\ LET t == [NewTask(id) EXCEPT !.priority = p, !.max_retries = r]
       IN  /\ queues' = [queues EXCEPT ![p] = ZAdd(@, now, t)]
           /\ created' = created \cup {t.id}
    /\ hist' = [hist EXCEPT !.enqSince = @ \cup {p}]
    /\ UNCHANGED <<now, waiting, depWaiters, registry, inbox, processing, outbox,
                   results, failedTasks, legacyTasks>>
    /\ UNCHANGED <<coordVars, workerVars, schedVars>>

\* --------------------------------------------- Coordinator.distributeWork
\* (variant: the scan of a tick starts at the lowest priority)
DistTickLowest(order) ==
    /\ dist.pc = "idle"
    /\ liveWorkers # {}
    /\ dist' = [pc |-> "scan", avail |-> order, prio |-> 1, batch |-> << >>]
    /\ hist' = [hist EXCEPT !.tickTop = HighestNonEmpty(queues),
                            !.firstAssign = 0, !.enqSince = {}]
    /\ UNCHANGED <<now, created, storeVars, liveWorkers, coll, mon, workerVars, schedVars>>

\* a tick: range over c.workers into availableWorkers; no worker, no work
DistTick(order) ==
    /\ dist.pc = "idle"
    /\ liveWorkers # {}
    /\ dist' = [pc |-> "scan", avail |-> order, prio |-> NumPriorities, batch |-> << >>]
    /\ hist' = [hist EXCEPT !.tickTop = HighestNonEmpty(queues),
                            !.firstAssign = 0, !.enqSince = {}]
    /\ UNCHANGED <<now, created, storeVars, liveWorkers, coll, mon, workerVars, schedVars>>

\* the loop's step to the next lower priority, or the end of the tick
DistNext(d) ==
    IF d.prio > 1 THEN [d EXCEPT !.pc = "scan", !.prio = @ - 1, !.batch = << >>]
    ELSE DistIdle

\* (variant: the batch is taken in descending order)
DistScanReversed ==
    /\ dist.pc = "scan"
    /\ LET r == ZRange(queues[dist.prio], BatchSize)
           result == [i \in 1..Len(r) |-> r[Len(r) + 1 - i]]
       IN  dist' = IF result = << >> THEN DistNext(dist)
                   ELSE [dist EXCEPT !.pc = "assign", !.batch = result]
    /\ UNCHANGED <<now, created, storeVars, liveWorkers, coll, mon, workerVars,
                   schedVars, hist>>

\* result := ZRange(queueKey, 0, 4); empty: continue with the next priority
DistScan ==
    /\ dist.pc = "scan"
    /\ LET result == ZRange(queues[dist.prio], BatchSize)
       IN  dist' = IF result = << >> THEN DistNext(dist)
                   ELSE [dist EXCEPT !.pc = "assign", !.batch = result]
    /\ UNCHANGED <<now, created, storeVars, liveWorkers, coll, mon, workerVars,
                   schedVars, hist>>

\* workerID := availableWorkers[0], rotate, HSet worker:<id>:tasks
DistAssign ==
    /\ dist.pc = "assign"
    /\ LET t == Head(dist.batch)
           w == Head(dist.avail)
       IN  /\ inbox' = [inbox EXCEPT ![w] = MapSet(@, t.id, t)]
           /\ dist' = [dist EXCEPT !.pc = "zrem", !.avail = Tail(@) \o <<w>>]
    /\ hist' = [hist EXCEPT !.firstAssign = IF @ = 0 THEN dist.prio ELSE @]
    /\ UNCHANGED <<now, created, queues, waiting, depWaiters, registry, processing,
                   outbox, results, failedTasks, legacyTasks>>
    /\ UNCHANGED <<liveWorkers, coll, mon, workerVars, schedVars>>

\* ZRem(queueKey, taskStr), then the next task of the batch
DistZRem ==
    /\ dist.pc = "zrem"
    /\ queues' = [queues EXCEPT ![dist.prio] = ZRem(@, Head(dist.batch))]
    /\ dist' = IF Tail(dist.batch) = << >> THEN DistNext(dist)
               ELSE [dist EXCEPT !.pc = "assign", !.batch = Tail(@)]
    /\ UNCHANGED <<now, created, waiting, depWaiters, registry, inbox, processing,
                   outbox, results, failedTasks, legacyTasks>>
    /\ UNCHANGED <<liveWorkers, coll, mon, workerVars, schedVars, hist>>

\* --------------------------------------------- Coordinator.collectResults
\* HGetAll worker:<w>:results for a worker of c.workers
CollRead(w) ==
    /\ coll.pc = "idle"
    /\ w \in liveWorkers
    /\ outbox[w] # EmptyMap
    /\ coll' = [pc |-> "hset", w |-> w, snap |-> outbox[w], cur |-> 0]
    /\ UNCHANGED <<now, created, storeVars, liveWorkers, dist, mon, workerVars,
                   schedVars, hist>>

\* (variant: a result reaped again is counted as one more attempt)
CollHSetCounting(id) ==
    /\ coll.pc = "hset"
    /\ id \in DOMAIN coll.snap
    /\ results' = MapSet(results, id,
                         IF id \in DOMAIN results
                         THEN [coll.snap[id] EXCEPT !.retry_count = results[id].retry_count + 1]
                         ELSE coll.snap[id])
    /\ coll' = [coll EXCEPT !.pc = "hdel", !.cur = id]
    /\ UNCHANGED <<now, created, queues, waiting, depWaiters, registry, inbox,
                   processing, outbox, failedTasks, legacyTasks>>
    /\ UNCHANGED <<liveWorkers, dist, mon, workerVars, schedVars, hist>>

\* HSet results taskID resultStr
CollHSet(id) ==
    /\ coll.pc = "hset"
    /\ id \in DOMAIN coll.snap
    /\ results' = MapSet(results, id, coll.snap[id])
    /\ coll' = [coll EXCEPT !.pc = "hdel", !.cur = id]
    /\ UNCHANGED <<now, created, queues, waiting, depWaiters, registry, inbox,
                   processing, outbox, failedTasks, legacyTasks>>
    /\ UNCHANGED <<liveWorkers, dist, mon, workerVars, schedVars, hist>>

\* HDel worker:<w>:results taskID
CollHDel ==
    /\ coll.pc = "hdel"
    /\ outbox' = [outbox EXCEPT ![coll.w] = MapDel(@, coll.cur)]
    /\ LET rest == MapDel(coll.snap, coll.cur)
       IN  coll' = IF rest = EmptyMap THEN CollIdle
                   ELSE [coll EXCEPT !.pc = "hset", !.snap = rest, !.cur = 0]
    /\ UNCHANGED <<now, created, queues, waiting, depWaiters, registry, inbox,
                   processing, results, failedTasks, legacyTasks>>
    /\ UNCHANGED <<liveWorkers, dist, mon, workerVars, schedVars, hist>>

\* HDel worker:<w>:results taskID fails with a store error; the error is not
\* looked at, the entry stays in the worker's results and the loop goes on
CollHDelFails ==
    /\ coll.pc = "hdel"
    /\ LET rest == MapDel(coll.snap, coll.cur)
       IN  coll' = IF rest = EmptyMap THEN CollIdle
                   ELSE [coll EXCEPT !.pc = "hset", !.snap = rest, !.cur = 0]
    /\ hist' = [hist EXCEPT !.hdelFailed = @ \cup {coll.cur}]
    /\ UNCHANGED <<now, created, storeVars, liveWorkers, dist, mon, workerVars, schedVars>>

\* --------------------------------------------- Coordinator.monitorWorkers
\* HGetAll workers; now := time.Now().Unix()
MonRead ==
    /\ mon.pc = "idle"
    /\ registry # EmptyMap
    /\ mon' = [MonIdle EXCEPT !.pc = "loop", !.snap = registry, !.at = now]
    /\ UNCHANGED <<now, created, storeVars, liveWorkers, dist, coll, workerVars,
                   schedVars, hist>>

MonNext(m, w) ==
    IF MapDel(m.snap, w) = EmptyMap THEN MonIdle
    ELSE [MonIdle EXCEPT !.pc = "loop", !.snap = MapDel(m.snap, w), !.at = m.at]

\* now-lastSeen <= 30: c.workers.Store
MonLive(w) ==
    /\ mon.pc = "loop"
    /\ w \in DOMAIN mon.snap
    /\ mon.at - mon.snap[w] <= LiveTimeout
    /\ liveWorkers' = liveWorkers \cup {w}
    /\ mon' = MonNext(mon, w)
    /\ UNCHANGED <<now, created, storeVars, dist, coll, workerVars, schedVars, hist>>

\* (variant: an entry as old as the heartbeat period is taken for dead)
MonDeadAtPeriod(w) ==
    /\ mon.pc = "loop"
    /\ w \in DOMAIN mon.snap
    /\ mon.at - mon.snap[w] >= HeartbeatSeconds
    /\ liveWorkers' = liveWorkers \ {w}
    /\ registry' = MapDel(registry, w)
    /\ mon' = [mon EXCEPT !.pc = "fetch", !.w = w]
    /\ hist' = [hist EXCEPT !.salvageDue =
                   @ \cup (DOMAIN inbox[w]) \cup (DOMAIN processing[w])]
    /\ UNCHANGED <<now, created, queues, waiting, depWaiters, inbox, processing,
                   outbox, results, failedTasks, legacyTasks>>
    /\ UNCHANGED <<dist, coll, workerVars, schedVars>>

\* else: c.workers.Delete, HDel workers
MonDead(w) ==
    /\ mon.pc = "loop"
    /\ w \in DOMAIN mon.snap
    /\ mon.at - mon.snap[w] > LiveTimeout
    /\ liveWorkers' = liveWorkers \ {w}
    /\ registry' = MapDel(registry, w)
    /\ mon' = [mon EXCEPT !.pc = "fetch", !.w = w]
    /\ hist' = [hist EXCEPT !.salvageDue =
                   @ \cup (DOMAIN inbox[w]) \cup (DOMAIN processing[w])]
    /\ UNCHANGED <<now, created, queues, waiting, depWaiters, inbox, processing,
                   outbox, results, failedTasks, legacyTasks>>
    /\ UNCHANGED <<dist, coll, workerVars, schedVars>>

\* tasks, _ := HGetAll worker:<w>:tasks
MonFetch ==
    /\ mon.pc = "fetch"
    /\ mon' = [mon EXCEPT !.pc = "push", !.tasks = inbox[mon.w]]
    /\ UNCHANGED <<now, created, storeVars, liveWorkers, dist, coll, workerVars,
                   schedVars, hist>>

\* for _, taskStr := range tasks: RPush tasks taskStr
MonPush(id) ==
    /\ mon.pc = "push"
    /\ id \in DOMAIN mon.tasks
    /\ legacyTasks' = Append(legacyTasks, mon.tasks[id])
    /\ mon' = [mon EXCEPT !.tasks = MapDel(@, id)]
    /\ UNCHANGED <<now, created, queues, waiting, depWaiters, registry, inbox,
                   processing, outbox, results, failedTasks>>
    /\ UNCHANGED <<liveWorkers, dist, coll, workerVars, schedVars, hist>>

\* Del worker:<w>:tasks
MonDelTasks ==
    /\ mon.pc = "push"
    /\ mon.tasks = EmptyMap
    /\ inbox' = [inbox EXCEPT ![mon.w] = EmptyMap]
    /\ mon' = [mon EXCEPT !.pc = "delres"]
    /\ UNCHANGED <<now, created, queues, waiting, depWaiters, registry, processing,
                   outbox, results, failedTasks, legacyTasks>>
    /\ UNCHANGED <<liveWorkers, dist, coll, workerVars, schedVars, hist>>

\* Del worker:<w>:results, then the next worker of the snapshot
MonDelResults ==
    /\ mon.pc = "delres"
    /\ outbox' = [outbox EXCEPT ![mon.w] = EmptyMap]
    /\ mon' = MonNext(mon, mon.w)
    /\ UNCHANGED <<now, created, queues, waiting, depWaiters, registry, inbox,
                   processing, results, failedTasks, legacyTasks>>
    /\ UNCHANGED <<liveWorkers, dist, coll, workerVars, schedVars, hist>>

\* ------------------------------------------------------------------ Worker
\* Worker.sendHeartbeat: HSet workers <id> now
Heartbeat(w) ==
    /\ alive[w]
    /\ (w \in DOMAIN registry => registry[w] # now)
    /\ registry' = MapSet(registry, w, now)
    /\ UNCHANGED <<now, created, queues, waiting, depWaiters, inbox, processing,
                   outbox, results, failedTasks, legacyTasks>>
    /\ UNCHANGED <<coordVars, workerVars, schedVars, hist>>

\* Worker.checkForWork: tasks := HGetAll worker:<w>:tasks
CheckRead(w) ==
    /\ alive[w]
    /\ chk[w].pc = "idle"
    /\ inbox[w] # EmptyMap
    /\ chk' = [chk EXCEPT ![w] = [pc |-> "iter", snap |-> inbox[w], cur |-> 0]]
    /\ UNCHANGED <<now, created, storeVars, coordVars, alive, tasksChan, resultsChan,
                   exec, steal, schedVars, hist>>

\* for taskID, taskStr := range tasks: (unmarshal) select { case w.tasks <- &t ...
\* case <-time.After(100ms) }: a full channel leaves the entry in the inbox
CheckSend(w, id) ==
    /\ alive[w]
    /\ chk[w].pc = "iter"
    /\ id \in DOMAIN chk[w].snap
    /\ IF Len(tasksChan[w]) < TaskChanCap
       THEN /\ tasksChan' = [tasksChan EXCEPT ![w] = Append(@, chk[w].snap[id])]
            /\ chk' = [chk EXCEPT ![w].pc = "del", ![w].cur = id]
            /\ hist' = [hist EXCEPT !.taken[w] = @ \cup {id}]
       ELSE /\ chk' = [chk EXCEPT ![w] =
                         IF MapDel(@.snap, id) = EmptyMap THEN ChkIdle
                         ELSE [@ EXCEPT !.snap = MapDel(@, id)]]
            /\ UNCHANGED <<tasksChan, hist>>
    /\ UNCHANGED <<now, created, storeVars, coordVars, alive, resultsChan, exec,
                   steal, schedVars>>

\* (variant: without the continue, the entry goes on to the executors' channel)
CheckFailNoContinue(w, id) ==
    /\ alive[w]
    /\ chk[w].pc = "iter"
    /\ id \in DOMAIN chk[w].snap
    /\ failedTasks' = MapSet(failedTasks, id, chk[w].snap[id])
    /\ tasksChan' = [tasksChan EXCEPT ![w] = Append(@, chk[w].snap[id])]
    /\ chk' = [chk EXCEPT ![w].pc = "del", ![w].cur = id]
    /\ UNCHANGED <<now, created, queues, waiting, depWaiters, registry, inbox,
                   processing, outbox, results, legacyTasks>>
    /\ UNCHANGED <<coordVars, alive, resultsChan, exec, steal, schedVars, hist>>

\* for taskID, taskStr := range tasks: json.Unmarshal fails;
\* HSet failed_tasks taskID taskStr (the HDel follows)
CheckFail(w, id) ==
    /\ alive[w]
    /\ chk[w].pc = "iter"
    /\ id \in DOMAIN chk[w].snap
    /\ failedTasks' = MapSet(failedTasks, id, chk[w].snap[id])
    /\ chk' = [chk EXCEPT ![w].pc = "del", ![w].cur = id]
    /\ UNCHANGED <<now, created, queues, waiting, depWaiters, registry, inbox,
                   processing, outbox, results, legacyTasks>>
    /\ UNCHANGED <<coordVars, alive, tasksChan, resultsChan, exec, steal, schedVars,
                   hist>>

\* HDel worker:<w>:tasks taskID, after the hand-off
CheckDel(w) ==
    /\ alive[w]
    /\ chk[w].pc = "del"
    /\ inbox' = [inbox EXCEPT ![w] = MapDel(@, chk[w].cur)]
    /\ LET rest == MapDel(chk[w].snap, chk[w].cur)
       IN  chk' = [chk EXCEPT ![w] =
                     IF rest = EmptyMap THEN ChkIdle
                     ELSE [pc |-> "iter", snap |-> rest, cur |-> 0]]
    /\ UNCHANGED <<now, created, queues, waiting, depWaiters, registry, processing,
                   outbox, results, failedTasks, legacyTasks>>
    /\ UNCHANGED <<coordVars, alive, tasksChan, resultsChan, exec, steal, schedVars,
                   hist>>

\* Worker.processTask: t := <-w.tasks; t.Status = processing;
\* HSet worker:<w>:processing
ExecStart(w, e) ==
    /\ alive[w]
    /\ exec[w][e].pc = "idle"
    /\ tasksChan[w] # << >>
    /\ LET t == [Head(tasksChan[w]) EXCEPT !.status = "processing"]
       IN  /\ exec' = [exec EXCEPT ![w][e] = [pc |-> "work", task |-> t]]
           /\ processing' = [processing EXCEPT ![w] = MapSet(@, t.id, t)]
    /\ tasksChan' = [tasksChan EXCEPT ![w] = Tail(@)]
    /\ UNCHANGED <<now, created, queues, waiting, depWaiters, registry, inbox,
                   outbox, results, failedTasks, legacyTasks>>
    /\ UNCHANGED <<coordVars, alive, resultsChan, chk, steal, schedVars, hist>>

\* after the work: result.Status = completed; HDel worker:<w>:processing;
\* select { case w.results <- result ... case <-time.After(100ms) }
ExecFinish(w, e) ==
    /\ alive[w]
    /\ exec[w][e].pc = "work"
    /\ LET t == exec[w][e].task
       IN  /\ processing' = [processing EXCEPT ![w] = MapDel(@, t.id)]
           /\ resultsChan' = [resultsChan EXCEPT ![w] =
                                IF Len(@) < ResultChanCap
                                THEN Append(@, NewResult(t, w)) ELSE @]
           /\ hist' = [hist EXCEPT !.done = Append(@, t.id)]
    /\ exec' = [exec EXCEPT ![w][e] = ExecIdle]
    /\ UNCHANGED <<now, created, queues, waiting, depWaiters, registry, inbox,
                   outbox, results, failedTasks, legacyTasks>>
    /\ UNCHANGED <<coordVars, alive, tasksChan, chk, steal, schedVars>>

\* Worker.submitResults: result := <-w.results; HSet worker:<w>:results
SubmitResult(w) ==
    /\ alive[w]
    /\ resultsChan[w] # << >>
    /\ LET r == Head(resultsChan[w])
       IN  outbox' = [outbox EXCEPT ![w] = MapSet(@, r.task_id, r)]
    /\ resultsChan' = [resultsChan EXCEPT ![w] = Tail(@)]
    /\ UNCHANGED <<now, created, queues, waiting, depWaiters, registry, inbox,
                   processing, results, failedTasks, legacyTasks>>
    /\ UNCHANGED <<coordVars, alive, tasksChan, chk, exec, steal, schedVars, hist>>

\* Worker.submitResults when HSet worker:<w>:results returns an error: the
\* error is logged and the loop continues with the next result
SubmitResultFails(w) ==
    /\ alive[w]
    /\ resultsChan[w] # << >>
    /\ resultsChan' = [resultsChan EXCEPT ![w] = Tail(@)]
    /\ UNCHANGED <<now, created, storeVars, coordVars, alive, tasksChan, chk, exec,
                   steal, schedVars, hist>>

\* the worker process is killed: its goroutines and channels are gone
Crash(w) ==
    /\ alive[w]
    /\ alive' = [alive EXCEPT ![w] = FALSE]
    /\ tasksChan' = [tasksChan EXCEPT ![w] = << >>]
    /\ resultsChan' = [resultsChan EXCEPT ![w] = << >>]
    /\ chk' = [chk EXCEPT ![w] = ChkIdle]
    /\ exec' = [exec EXCEPT ![w] = [e \in 1..PoolSize |-> ExecIdle]]
    /\ steal' = [steal EXCEPT ![w] = StealIdle]
    /\ UNCHANGED <<now, created, storeVars, coordVars, schedVars, hist>>

\* the clock: one second passes
Tick ==
    /\ now < MaxClock
    /\ now' = now + 1
    /\ UNCHANGED <<created, storeVars, coordVars, workerVars, schedVars, hist>>

\* the clock: more than the liveness gate passes; the running workers'
\* sendHeartbeat loops (every 10 s) have refreshed their entries meanwhile
Lapse ==
    /\ now < MaxLapses * (LiveTimeout + 1)
    /\ now' = now + LiveTimeout + 1
    /\ registry' = [w \in (DOMAIN registry) \cup {v \in WorkerIds : alive[v]} |->
                       IF alive[w] THEN now' ELSE registry[w]]
    /\ UNCHANGED <<created, queues, waiting, depWaiters, inbox, processing, outbox,
                   results, failedTasks, legacyTasks>>
    /\ UNCHANGED <<coordVars, workerVars, schedVars, hist>>

\* --------------------------------------------------------------- Scheduler
\* (variant: every dependency is taken to have a result)
DepAssumed(d) == TRUE

\* (variant: an entry in failed_tasks counts as well)
DepTerminated(d) == d \in DOMAIN results \/ d \in DOMAIN failedTasks

\* s.redis.HExists(ctx, "results", depID)
DepResolved(d) == d \in DOMAIN results

\* ScheduleTask's score: time.Now().Unix(), less OverdueBonus for an overdue
\* deadline, else less the seconds that remain
Score(t) ==
    IF ~t.has_deadline THEN now
    ELSE IF t.deadline - now < 0 THEN now - OverdueBonus
    ELSE now - (t.deadline - now)

\* ScheduleTask is called with a new task: the options are copied into it
SchedCall(id, p, r, deps) ==
    /\ sched.pc = "idle"
    /\ id \notin created
    /\ LET t == [NewTask(id) EXCEPT !.priority = p, !.max_retries = r, !.deps = deps]
       IN  /\ sched' = [pc |-> IF deps = {} THEN "zadd" ELSE "check",
                        task |-> t, todo |-> deps]
           /\ taskObj' = MapSet(taskObj, id, t)
    /\ created' = created \cup {id}
    /\ hist' = [hist EXCEPT !.deps = MapSet(@, id, deps)]
    /\ UNCHANGED <<now, storeVars, coordVars, workerVars, compl>>

\* ScheduleTask is called with a new task and opts.Deadline set
SchedCallDeadline(id, p, r, dl) ==
    /\ sched.pc = "idle"
    /\ id \notin created
    /\ LET t == [NewTask(id) EXCEPT !.priority = p, !.max_retries = r,
                                    !.has_deadline = TRUE, !.deadline = dl]
       IN  /\ sched' = [pc |-> "zadd", task |-> t, todo |-> {}]
           /\ taskObj' = MapSet(taskObj, id, t)
    /\ created' = created \cup {id}
    /\ hist' = [hist EXCEPT !.deps = MapSet(@, id, {})]
    /\ UNCHANGED <<now, storeVars, coordVars, workerVars, compl>>

\* ScheduleTask is called again on the caller's *Task (its ScheduleTask and
\* RetryTask calls have returned) with new options: priority, max retries and
\* dependencies are overwritten, the retry count is not touched
Reschedule(id, p, r, deps) ==
    /\ sched.pc = "idle"
    /\ id \in DOMAIN taskObj
    /\ LET t == [taskObj[id] EXCEPT !.priority = p, !.max_retries = r, !.deps = deps]
       IN  /\ sched' = [pc |-> IF deps = {} THEN "zadd" ELSE "check",
                        task |-> t, todo |-> deps]
           /\ taskObj' = MapSet(taskObj, id, t)
    /\ UNCHANGED <<now, created, storeVars, coordVars, workerVars, compl, hist>>

\* for _, depID := range task.Dependencies: HExists; the first dependency
\* without a result sends the task to scheduleDependentTask
SchedCheck(d) ==
    /\ sched.pc = "check"
    /\ d \in sched.todo
    /\ sched' = IF DepResolved(d)
                THEN [sched EXCEPT !.todo = @ \ {d},
                                   !.pc = IF sched.todo = {d} THEN "zadd" ELSE "check"]
                ELSE [sched EXCEPT !.pc = "park", !.todo = sched.task.deps]
    /\ UNCHANGED <<now, created, storeVars, coordVars, workerVars, taskObj, compl, hist>>

\* scheduleDependentTask: HSet tasks:waiting:<id> task
SchedPark ==
    /\ sched.pc = "park"
    /\ waiting' = MapSet(waiting, sched.task.id, sched.task)
    /\ sched' = [sched EXCEPT !.pc = "track"]
    /\ hist' = [hist EXCEPT !.parked = @ \cup {sched.task.id}]
    /\ UNCHANGED <<now, created, queues, depWaiters, registry, inbox, processing,
                   outbox, results, failedTasks, legacyTasks>>
    /\ UNCHANGED <<coordVars, workerVars, taskObj, compl>>

\* scheduleDependentTask: SAdd tasks:dependencies:<depID> <id>, one per dependency
SchedTrack(d) ==
    /\ sched.pc = "track"
    /\ d \in sched.todo
    /\ depWaiters' = [depWaiters EXCEPT ![d] = @ \cup {sched.task.id}]
    /\ sched' = IF sched.todo = {d} THEN SchedIdle ELSE [sched EXCEPT !.todo = @ \ {d}]
    /\ UNCHANGED <<now, created, queues, waiting, registry, inbox, processing,
                   outbox, results, failedTasks, legacyTasks>>
    /\ UNCHANGED <<coordVars, workerVars, taskObj, compl, hist>>

\* ScheduleTask: ZAdd tasks:priority:<p>
SchedZAdd ==
    /\ sched.pc = "zadd"
    /\ LET t == sched.task
       IN  /\ queues' = [queues EXCEPT ![t.priority] = ZAdd(@, Score(t), t)]
           /\ hist' = [hist EXCEPT
                         !.direct = @ \cup {t.id},
                         !.enqSince = @ \cup {t.priority},
                         !.early = IF hist.deps[t.id] \subseteq DOMAIN results
                                   THEN @ ELSE @ \cup {t.id}]
    /\ sched' = SchedIdle
    /\ UNCHANGED <<now, created, waiting, depWaiters, registry, inbox, processing,
                   outbox, results, failedTasks, legacyTasks>>
    /\ UNCHANGED <<coordVars, workerVars, taskObj, compl>>

\* the next dependent of OnTaskComplete's loop, or the cleanup after the last
ComplNext(c) ==
    [c EXCEPT !.pc = IF c.todo = {} THEN "cleanup" ELSE "get",
              !.task = NewTask(0), !.deps = {}]

\* OnTaskComplete(taskID): SMembers tasks:dependencies:<taskID>
ComplCall(id) ==
    /\ compl.pc = "idle"
    /\ compl' = ComplNext([ComplIdle EXCEPT !.id = id, !.todo = depWaiters[id]])
    /\ hist' = [hist EXCEPT !.notified = @ \cup {id}]
    /\ UNCHANGED <<now, created, storeVars, coordVars, workerVars, taskObj, sched>>

\* HGet tasks:waiting:<depTaskID> task; a missing entry is skipped
ComplGet(b) ==
    /\ compl.pc = "get"
    /\ b \in compl.todo
    /\ compl' = IF b \in DOMAIN waiting
                THEN [compl EXCEPT !.todo = @ \ {b}, !.task = waiting[b],
                                   !.deps = waiting[b].deps,
                                   !.pc = IF waiting[b].deps = {} THEN "del" ELSE "check"]
                ELSE ComplNext([compl EXCEPT !.todo = @ \ {b}])
    /\ UNCHANGED <<now, created, storeVars, coordVars, workerVars, taskObj, sched, hist>>

\* allComplete: HExists results <depID> for the dependent's dependencies
ComplCheck(d) ==
    /\ compl.pc = "check"
    /\ d \in compl.deps
    /\ compl' = IF DepResolved(d)
                THEN [compl EXCEPT !.deps = @ \ {d},
                                   !.pc = IF compl.deps = {d} THEN "del" ELSE "check"]
                ELSE ComplNext(compl)
    /\ UNCHANGED <<now, created, storeVars, coordVars, workerVars, taskObj, sched, hist>>

\* s.redis.Del(ctx, taskKey)
ComplDel ==
    /\ compl.pc = "del"
    /\ waiting' = MapDel(waiting, compl.task.id)
    /\ compl' = [compl EXCEPT !.pc = "zadd"]
    /\ UNCHANGED <<now, created, queues, depWaiters, registry, inbox, processing,
                   outbox, results, failedTasks, legacyTasks>>
    /\ UNCHANGED <<coordVars, workerVars, taskObj, sched, hist>>

\* s.ScheduleTask(ctx, &task, opts) with opts.Dependencies left nil: the task
\* loses its dependency list and goes to ZAdd
ComplZAdd ==
    /\ compl.pc = "zadd"
    /\ LET t == [compl.task EXCEPT !.deps = {}]
       IN  /\ queues' = [queues EXCEPT ![t.priority] = ZAdd(@, Score(t), t)]
           /\ hist' = [hist EXCEPT
                         !.enqSince = @ \cup {t.priority},
                         !.early = IF t.id \in DOMAIN hist.deps
                                      /\ ~(hist.deps[t.id] \subseteq DOMAIN results)
                                   THEN @ \cup {t.id} ELSE @]
    /\ compl' = ComplNext(compl)
    /\ UNCHANGED <<now, created, waiting, depWaiters, registry, inbox, processing,
                   outbox, results, failedTasks, legacyTasks>>
    /\ UNCHANGED <<coordVars, workerVars, taskObj, sched>>

\* s.redis.Del(ctx, "tasks:dependencies:<taskID>")
ComplCleanup ==
    /\ compl.pc = "cleanup"
    /\ depWaiters' = [depWaiters EXCEPT ![compl.id] = {}]
    /\ compl' = ComplIdle
    /\ UNCHANGED <<now, created, queues, waiting, registry, inbox, processing,
                   outbox, results, failedTasks, legacyTasks>>
    /\ UNCHANGED <<coordVars, workerVars, taskObj, sched, hist>>

\* time.Duration(1<<retryCount) * time.Second in int64: 1953125 * 2^(rc + 9)
\* modulo 2^64, read as a signed number; the result is mant * 2^exp
RetryBackoff(rc) ==
    LET exp == rc + SecondShift
        k == Int64Bits - exp
    IN  IF k <= 0 THEN [mant |-> 0, exp |-> 0]
        ELSE IF k > 30 THEN [mant |-> SecondOdd, exp |-> exp]
        ELSE LET m == SecondOdd % (2 ^ k)
             IN  [mant |-> IF m >= 2 ^ (k - 1) THEN m - 2 ^ k ELSE m, exp |-> exp]

\* Task.CanRetry
CanRetry(t) == t.retry_count < t.max_retries

\* (variant: RetryTask without the test of the retry count)
RetryTaskUnchecked(id) ==
    /\ id \in DOMAIN taskObj
    /\ sched.pc = "idle" \/ sched.task.id # id
    /\ LET rc == taskObj[id].retry_count + 1
           b == RetryBackoff(rc)
           t == [taskObj[id] EXCEPT
                   !.retry_count = rc, !.status = "pending", !.deps = {},
                   !.next_retry_at = [zero |-> FALSE, from |-> now,
                                      mant |-> b.mant, exp |-> b.exp]]
       IN  /\ taskObj' = MapSet(taskObj, id, t)
           /\ queues' = [queues EXCEPT ![t.priority] = ZAdd(@, Score(t), t)]
    /\ hist' = [hist EXCEPT !.enqSince = @ \cup {taskObj[id].priority}]
    /\ UNCHANGED <<now, created, waiting, depWaiters, registry, inbox, processing,
                   outbox, results, failedTasks, legacyTasks>>
    /\ UNCHANGED <<coordVars, workerVars, sched, compl>>

\* RetryTask's early return: "max retries exceeded for task <id>"; nothing
\* is written
RetryRefused(id) ==
    /\ id \in DOMAIN taskObj
    /\ sched.pc = "idle" \/ sched.task.id # id
    /\ taskObj[id].retry_count >= taskObj[id].max_retries
    /\ hist' = [hist EXCEPT !.refused = @ \cup {id}]
    /\ UNCHANGED <<now, created, storeVars, coordVars, workerVars, schedVars>>

\* RetryTask on the caller's *Task, once its ScheduleTask call has returned:
\* count, status, NextRetryAt, then ScheduleTask with opts.Dependencies left
\* nil, which is one ZAdd
RetryTask(id) ==
    /\ id \in DOMAIN taskObj
    /\ sched.pc = "idle" \/ sched.task.id # id
    /\ taskObj[id].retry_count < taskObj[id].max_retries
    /\ LET rc == taskObj[id].retry_count + 1
           b == RetryBackoff(rc)
           t == [taskObj[id] EXCEPT
                   !.retry_count = rc, !.status = "pending", !.deps = {},
                   !.next_retry_at = [zero |-> FALSE, from |-> now,
                                      mant |-> b.mant, exp |-> b.exp]]
       IN  /\ taskObj' = MapSet(taskObj, id, t)
           /\ queues' = [queues EXCEPT ![t.priority] = ZAdd(@, Score(t), t)]
    /\ hist' = [hist EXCEPT !.enqSince = @ \cup {taskObj[id].priority}]
    /\ UNCHANGED <<now, created, waiting, depWaiters, registry, inbox, processing,
                   outbox, results, failedTasks, legacyTasks>>
    /\ UNCHANGED <<coordVars, workerVars, sched, compl>>

\* time.Now().After(at) for a clock reading d >= 0 seconds after at.from (and
\* some nanoseconds, as two readings of the clock differ):
\* d * 1953125 * 2^9 ns > mant * 2^exp ns (d * 1953125 stays below 2^30)
After(d, at) ==
    IF at.mant <= 0 THEN TRUE
    ELSE IF at.exp - SecondShift > 30 THEN FALSE
    ELSE d > 0 /\ (d * SecondOdd - 1) \div (2 ^ (at.exp - SecondShift)) >= at.mant

\* Task.ShouldProcess at clock reading t
ShouldProcess(task, t) ==
    IF task.next_retry_at.zero THEN TRUE ELSE After(t - task.next_retry_at.from, task.next_retry_at)

\* ------------------------------------------------------------- WorkStealer
IdleWorkers(w) == Cardinality({e \in 1..PoolSize : exec[w][e].pc = "idle"})

\* monitorAndSteal's tick with an idle executor; attemptSteal: HGetAll workers
StealList(w) ==
    /\ alive[w]
    /\ steal[w].pc = "idle"
    /\ IdleWorkers(w) > 0
    /\ (DOMAIN registry) \ {w} # {}
    /\ steal' = [steal EXCEPT ![w] = [StealIdle EXCEPT !.pc = "probe",
                                         !.todo = (DOMAIN registry) \ {w}]]
    /\ UNCHANGED <<now, created, storeVars, coordVars, alive, tasksChan, resultsChan,
                   chk, exec, schedVars, hist>>

StealNext(s) ==
    IF s.todo = {} THEN StealIdle
    ELSE [StealIdle EXCEPT !.pc = "probe", !.todo = s.todo]

\* queueLen := HLen worker:<target>:tasks; if queueLen > 2: stealTasks
StealProbe(w, target) ==
    /\ alive[w]
    /\ steal[w].pc = "probe"
    /\ target \in steal[w].todo
    /\ LET s == [steal[w] EXCEPT !.todo = @ \ {target}]
       IN  steal' = [steal EXCEPT ![w] =
                       IF Cardinality(DOMAIN inbox[target]) > StealThreshold
                       THEN [s EXCEPT !.pc = "fetch", !.target = target,
                                      !.queueLen = Cardinality(DOMAIN inbox[target])]
                       ELSE StealNext(s)]
    /\ UNCHANGED <<now, created, storeVars, coordVars, alive, tasksChan, resultsChan,
                   chk, exec, schedVars, hist>>

\* stealTasks: tasks := HGetAll queueKey; stealCount := len(tasks) / 2
StealFetch(w) ==
    /\ alive[w]
    /\ steal[w].pc = "fetch"
    /\ LET snap == inbox[steal[w].target]
           count == Cardinality(DOMAIN snap) \div 2
       IN  steal' = [steal EXCEPT ![w] =
                       IF count = 0 THEN StealNext(@)
                       ELSE [@ EXCEPT !.pc = "move", !.snap = snap, !.count = count,
                                      !.stolen = 0, !.read = Cardinality(DOMAIN snap)]]
    /\ UNCHANGED <<now, created, storeVars, coordVars, alive, tasksChan, resultsChan,
                   chk, exec, schedVars, hist>>

\* HSetNX worker:<self>:tasks taskID taskData: written only when absent; the
\* command's error is nil either way
StealSetNX(w, id) ==
    /\ alive[w]
    /\ steal[w].pc = "move"
    /\ id \in DOMAIN steal[w].snap
    /\ inbox' = [inbox EXCEPT ![w] =
                   IF id \in DOMAIN @ THEN @ ELSE MapSet(@, id, steal[w].snap[id])]
    /\ steal' = [steal EXCEPT ![w].pc = "del", ![w].cur = id]
    /\ UNCHANGED <<now, created, queues, waiting, depWaiters, registry, processing,
                   outbox, results, failedTasks, legacyTasks>>
    /\ UNCHANGED <<coordVars, alive, tasksChan, resultsChan, chk, exec, schedVars,
                   hist>>

\* StealDel without the break at stealCount
StealDelAll(w) ==
    /\ alive[w]
    /\ steal[w].pc = "del"
    /\ inbox' = [inbox EXCEPT ![steal[w].target] = MapDel(@, steal[w].cur)]
    /\ LET s == [steal[w] EXCEPT !.snap = MapDel(@, steal[w].cur),
                                 !.stolen = @ + 1, !.cur = 0]
       IN  steal' = [steal EXCEPT ![w] =
                       IF s.snap = EmptyMap THEN StealNext(s) ELSE [s EXCEPT !.pc = "move"]]
    /\ UNCHANGED <<now, created, queues, waiting, depWaiters, registry, processing,
                   outbox, results, failedTasks, legacyTasks>>
    /\ UNCHANGED <<coordVars, alive, tasksChan, resultsChan, chk, exec, schedVars,
                   hist>>

\* HDel queueKey taskID; stolen++; if stolen >= stealCount: break
StealDel(w) ==
    /\ alive[w]
    /\ steal[w].pc = "del"
    /\ inbox' = [inbox EXCEPT ![steal[w].target] = MapDel(@, steal[w].cur)]
    /\ LET s == [steal[w] EXCEPT !.snap = MapDel(@, steal[w].cur),
                                 !.stolen = @ + 1, !.cur = 0]
       IN  steal' = [steal EXCEPT ![w] =
                       IF s.stolen >= s.count \/ s.snap = EmptyMap
                       THEN StealNext(s) ELSE [s EXCEPT !.pc = "move"]]
    /\ UNCHANGED <<now, created, queues, waiting, depWaiters, registry, processing,
                   outbox, results, failedTasks, legacyTasks>>
    /\ UNCHANGED <<coordVars, alive, tasksChan, resultsChan, chk, exec, schedVars,
                   hist>>

\* ---------------------------------------------------------- specifications
\* Normal operation: submissions, the three coordinator loops and the workers'
\* loops, with every worker heartbeating in time (no clock jump, no crash).
Next ==
    \/ \E id \in FreshIds, p \in SubmitPriorities : SubmitTask(id, p, DefaultMaxRetries)
    \/ \E order \in Orders(liveWorkers) : DistTick(order)
    \/ DistScan
    \/ DistAssign
    \/ DistZRem
    \/ \E w \in WorkerIds : CollRead(w)
    \/ \E id \in TaskIds : CollHSet(id)
    \/ CollHDel
    \/ MonRead
    \/ \E w \in WorkerIds : MonLive(w)
    \/ \E w \in WorkerIds : CheckRead(w)
    \/ \E w \in WorkerIds, id \in TaskIds : CheckSend(w, id)
    \/ \E w \in WorkerIds : CheckDel(w)
    \/ \E w \in WorkerIds, e \in 1..PoolSize : ExecStart(w, e)
    \/ \E w \in WorkerIds, e \in 1..PoolSize : ExecFinish(w, e)
    \/ \E w \in WorkerIds : SubmitResult(w)

Spec == Init /\ [][Next]_vars

\* A worker dies: the same loops, with one worker started, crashes, the clock
\* passing the liveness gate, and monitorWorkers' dead-worker branch.
InitSalvage == InitWith({}, {1}, {}, {1})

NextSalvage ==
    \/ \E id \in FreshIds : SubmitTask(id, 1, DefaultMaxRetries)
    \/ \E order \in Orders(liveWorkers) : DistTick(order)
    \/ DistScan
    \/ DistAssign
    \/ DistZRem
    \/ MonRead
    \/ \E w \in WorkerIds : MonLive(w)
    \/ \E w \in WorkerIds : MonDead(w)
    \/ MonFetch
    \/ \E id \in TaskIds : MonPush(id)
    \/ MonDelTasks
    \/ MonDelResults
    \/ \E w \in WorkerIds : Heartbeat(w)
    \/ \E w \in WorkerIds : CheckRead(w)
    \/ \E w \in WorkerIds, id \in TaskIds : CheckSend(w, id)
    \/ \E w \in WorkerIds : CheckDel(w)
    \/ \E w \in WorkerIds, e \in 1..PoolSize : ExecStart(w, e)
    \/ \E w \in WorkerIds, e \in 1..PoolSize : ExecFinish(w, e)
    \/ \E w \in WorkerIds : SubmitResult(w)
    \/ \E w \in WorkerIds : Crash(w)
    \/ Tick
    \/ Lapse

SpecSalvage == InitSalvage /\ [][NextSalvage]_vars

\* ----------------------------------------------------------------- claims
InSomeQueue(id) == \E p \in Priorities : id \in QueuedIds(p, queues)

LocCount(id) ==
    Cardinality({p \in Priorities : id \in QueuedIds(p, queues)})
    + Cardinality({w \in WorkerIds : id \in DOMAIN inbox[w]})
    + Cardinality({w \in WorkerIds : id \in DOMAIN processing[w]})
    + Cardinality({w \in WorkerIds : id \in DOMAIN outbox[w]})
    + (IF id \in DOMAIN waiting THEN 1 ELSE 0)

\* C1: every submitted task id that is not in Results or FailedTasks is in
\* exactly one of: a priority queue, an Inbox, a Processing bucket, an Outbox,
\* Waiting -- in every reachable state, between store writes included.
C1_SingleLocation ==
    \A id \in created :
        id \notin (DOMAIN results) \cup (DOMAIN failedTasks) => LocCount(id) = 1

\* C2: once monitorWorkers has removed a lapsed worker and finished with it,
\* every task that was in the worker's Inbox or Processing bucket is on a
\* priority queue, or has been assigned again or completed since.
C2_SalvageRequeues ==
    mon.pc \in {"idle", "loop"} =>
        \A id \in hist.salvageDue :
            \/ InSomeQueue(id)
            \/ \E w \in WorkerIds : id \in (DOMAIN inbox[w]) \cup (DOMAIN outbox[w])
            \/ id \in DOMAIN results

StealIds == 1..NumStealTasks

InitSteal == InitWith(StealIds, WorkerIds, {1}, WorkerIds)

NextSteal ==
    \/ \E order \in Orders(liveWorkers) : DistTick(order)
    \/ DistScan
    \/ DistAssign
    \/ DistZRem
    \/ \E w \in WorkerIds : CheckRead(w)
    \/ \E w \in WorkerIds, id \in StealIds : CheckSend(w, id)
    \/ \E w \in WorkerIds : CheckDel(w)
    \/ \E w \in WorkerIds, e \in 1..PoolSize : ExecStart(w, e)
    \/ \E w \in WorkerIds, e \in 1..PoolSize : ExecFinish(w, e)
    \/ \E w \in WorkerIds \ {1} : StealList(w)
    \/ \E w, target \in WorkerIds : StealProbe(w, target)
    \/ \E w \in WorkerIds : StealFetch(w)
    \/ \E w \in WorkerIds, id \in StealIds : StealSetNX(w, id)
    \/ \E w \in WorkerIds : StealDel(w)

SpecSteal == InitSteal /\ [][NextSteal]_vars

\* Pre-emption scenario: NumLow tasks have been enqueued at priority 1, one
\* worker of pool size 1 is live, and one task is then submitted at priority
\* 10.  The worker's map range yields the ids in ascending order (one of the
\* orders the Go runtime produces).
HighId == NumLow + 1
PreemptIds == 1..HighId

InitPreempt == InitWith(1..NumLow, {1}, {1}, {1})

NextPreempt ==
    \/ SubmitTask(HighId, NumPriorities, 0)
    \/ \E order \in Orders(liveWorkers) : DistTick(order)
    \/ DistScan
    \/ DistAssign
    \/ DistZRem
    \/ CheckRead(1)
    \/ \E id \in {i \in PreemptIds : i = Min((DOMAIN chk[1].snap) \cup {HighId})} :
           CheckSend(1, id)
    \/ CheckDel(1)
    \/ ExecStart(1, 1)
    \/ ExecFinish(1, 1)

SpecPreempt == InitPreempt /\ [][NextPreempt]_vars

\* The scheduler in front of the pipeline: the first task is submitted through
\* ScheduleTask with any dependencies on the tasks submitted after it,
\* OnTaskComplete is called by the scheduler's user for tasks whose result has
\* been reaped, one worker is live.
InitSched == InitWith({}, {1}, {1}, {1})

Pipeline(ids) ==
    \/ \E order \in Orders(liveWorkers) : DistTick(order)
    \/ DistScan
    \/ DistAssign
    \/ DistZRem
    \/ \E w \in WorkerIds : CollRead(w)
    \/ \E id \in ids : CollHSet(id)
    \/ CollHDel
    \/ \E w \in WorkerIds : CheckRead(w)
    \/ \E w \in WorkerIds, id \in ids : CheckSend(w, id)
    \/ \E w \in WorkerIds : CheckDel(w)
    \/ \E w \in WorkerIds, e \in 1..PoolSize : ExecStart(w, e)
    \/ \E w \in WorkerIds, e \in 1..PoolSize : ExecFinish(w, e)
    \/ \E w \in WorkerIds : SubmitResult(w)

NextSched ==
    \/ \E id \in FreshIn(DepIds) :
         \E deps \in (IF id = 1 THEN SUBSET (DepIds \ {id}) ELSE {{}}) :
           SchedCall(id, 1, DefaultMaxRetries, deps)
    \/ \E d \in DepIds : SchedCheck(d)
    \/ SchedPark
    \/ \E d \in DepIds : SchedTrack(d)
    \/ SchedZAdd
    \/ \E id \in DOMAIN results : ComplCall(id)
    \/ \E b \in DepIds : ComplGet(b)
    \/ \E d \in DepIds : ComplCheck(d)
    \/ ComplDel
    \/ ComplZAdd
    \/ ComplCleanup
    \/ Pipeline(DepIds)

SpecSched == InitSched /\ [][NextSched]_vars

\* Retries in front of the pipeline: a task whose result has been reaped is
\* retried (max_retries = 1) while the clock advances.
NextBackoff ==
    \/ \E id \in FreshIds : SchedCall(id, 1, 1, {})
    \/ SchedZAdd
    \/ \E id \in DOMAIN results : RetryTask(id)
    \/ Tick
    \/ Pipeline(TaskIds)

SpecBackoff == InitSched /\ [][NextBackoff]_vars

\* Repeated retries of one task with max_retries = MaxRetryCount
NextRetry ==
    \/ \E id \in FreshIds \cap {1} : SchedCall(id, 1, MaxRetryCount, {})
    \/ SchedZAdd
    \/ \E id \in DOMAIN taskObj : RetryTask(id)
    \/ Tick

SpecRetry == InitSched /\ [][NextRetry]_vars


\* C3: no task id is in the Inbox of two workers in the same state.
C3_OneInbox ==
    \A id \in created : Cardinality({w \in WorkerIds : id \in DOMAIN inbox[w]}) <= 1

\* C4: no task is handed to the executors of two workers: a task the victim
\* has taken from its Inbox is not also taken by the stealer from its own.
C4_NoDoubleAssignment ==
    \A id \in created : Cardinality({w \in WorkerIds : id \in hist.taken[w]}) <= 1

LowDone == {i \in DOMAIN hist.done : hist.done[i] <= NumLow}

\* C8: the priority-10 task completes before the 9th priority-1 task does.
C8_HighBeforeNinthLow ==
    Cardinality(LowDone) >= NumLow - 1 =>
        \E i \in DOMAIN hist.done :
            /\ hist.done[i] = HighId
            /\ Cardinality({j \in LowDone : j < i}) < NumLow - 1

\* C5: a task scheduled with dependencies is put on a priority queue, by
\* ScheduleTask or by OnTaskComplete, only at a moment when all of its
\* dependency ids are in results; ScheduleTask parks it in waiting otherwise,
\* and a parked task is not queued by ScheduleTask itself.
C5_DependencyGate ==
    /\ hist.early = {}
    /\ hist.parked \cap hist.direct = {}
    /\ \A id \in DOMAIN hist.deps :
           (sched.pc = "idle" \/ sched.task.id # id) =>
               id \in hist.parked \cup hist.direct

\* a task parked on two dependencies has been released to a queue
C5_Witness ==
    \E id \in hist.parked :
        /\ Cardinality(hist.deps[id]) = NumDepTasks - 1
        /\ InSomeQueue(id)
        /\ id \notin DOMAIN waiting

\* C6: for B parked in waiting on A, once A's result is in results and
\* collectResults' pass is over, OnTaskComplete(A) has been invoked (so that B
\* leaves waiting for its queue and completes).
C6_ReapInvokesOnComplete ==
    \A b \in DOMAIN waiting :
        \A a \in waiting[b].deps :
            (a \in DOMAIN results /\ coll.pc = "idle") => a \in hist.notified

\* C9: no executor is at work on a task whose next_retry_at is later than the
\* current time.
C9_NoEarlyExecution ==
    \A w \in WorkerIds, e \in 1..PoolSize :
        exec[w][e].pc = "work" => ShouldProcess(exec[w][e].task, now)

\* C10: a RetryTask call on a task of retry count k leaves the count at k+1,
\* the status pending and next_retry_at exactly 2^(k+1) seconds after the call.
C10_RetrySchedule ==
    [][\A id \in DOMAIN taskObj :
          taskObj'[id] # taskObj[id] =>
              /\ taskObj'[id].retry_count = taskObj[id].retry_count + 1
              /\ taskObj'[id].status = "pending"
              /\ taskObj'[id].next_retry_at =
                     [zero |-> FALSE, from |-> now, mant |-> SecondOdd,
                      exp |-> taskObj[id].retry_count + 1 + SecondShift]]_vars

\* Retry limits: tasks are scheduled with max_retries in 0..MaxLimit and
\* retried by the scheduler's user; nothing consumes the queues.
NextLimit ==
    \/ \E id \in FreshIds, r \in 0..MaxLimit : SchedCall(id, 1, r, {})
    \/ SchedZAdd
    \/ \E id \in DOMAIN taskObj : RetryTask(id)
    \/ \E id \in DOMAIN taskObj : RetryRefused(id)
    \/ Tick

SpecLimit == InitSched /\ [][NextLimit]_vars

\* the entries RetryTask has put on the queues for task id
RetryEntries(id) ==
    UNION {{e \in queues[p] : e.task.id = id /\ e.task.retry_count > 0} : p \in Priorities}

\* C11: in every step, a task that cannot be retried (retry_count >=
\* max_retries) keeps its retry count, status and next_retry_at and gains no
\* retry entry on a queue, whether or not RetryTask is called on it; and the entries
\* RetryTask has enqueued for a task never outnumber its max_retries.
C11_RetryRefused ==
    [][\A id \in DOMAIN taskObj :
          /\ ~CanRetry(taskObj[id]) =>
                 /\ taskObj'[id] = taskObj[id]
                 /\ RetryEntries(id)' = RetryEntries(id)
          /\ Cardinality(RetryEntries(id)') <= taskObj'[id].max_retries]_vars

\* RetryTask was refused for a task that had used up its MaxLimit retries
C11_Witness ==
    \E id \in hist.refused :
        /\ taskObj[id].max_retries = MaxLimit
        /\ taskObj[id].retry_count = MaxLimit
        /\ Cardinality(RetryEntries(id)) = MaxLimit

\* Retry limits with ScheduleTask called again on the one task scheduled
NextReschedule ==
    \/ \E id \in FreshIds \cap {1}, r \in 0..MaxLimit : SchedCall(id, 1, r, {})
    \/ \E id \in DOMAIN taskObj, r \in 0..MaxLimit : Reschedule(id, 1, r, {})
    \/ SchedZAdd
    \/ \E id \in DOMAIN taskObj : RetryTask(id)
    \/ \E id \in DOMAIN taskObj : RetryRefused(id)

SpecReschedule == InitSched /\ [][NextReschedule]_vars

\* C12: every task has retry_count <= max_retries, after any sequence of
\* ScheduleTask and RetryTask calls with non-negative max-retries options.
C12_RetryCountBounded ==
    \A id \in DOMAIN taskObj : taskObj[id].retry_count <= taskObj[id].max_retries

\* Re-delivery: the pipeline with one worker, where collectResults' HDel may
\* fail, so that the next tick finds the same result in the worker's results.
NextRedeliver ==
    \/ \E id \in FreshIds : SubmitTask(id, 1, DefaultMaxRetries)
    \/ CollHDelFails
    \/ Pipeline(TaskIds)

SpecRedeliver == InitSched /\ [][NextRedeliver]_vars

\* C13: when collectResults writes to results a result that results already
\* holds for that task id (the result of an earlier reap, delivered again), the
\* entry of that task and every other entry of results are left as they were.
C13_ReapIdempotent ==
    [][(/\ coll.pc = "hset"
        /\ coll'.pc = "hdel"
        /\ coll'.cur \in DOMAIN results
        /\ results[coll'.cur] = coll.snap[coll'.cur]) => results' = results]_vars

\* a result whose HDel had failed has been reaped a second time, with another
\* task's result in results
C13_Witness ==
    /\ coll.pc = "hdel"
    /\ coll.cur \in hist.hdelFailed
    /\ results[coll.cur] = coll.snap[coll.cur]
    /\ DOMAIN results # {coll.cur}

\* ------------------------------------------------------------ timed loops
\* The loops with their tickers.  hist.ds is the time since the coordinator's
\* Start in tenths of a second, hist.pending the tickers that have fired and
\* whose loop has not yet taken the tick.  A loop takes its tick, and every
\* step after it, before the clock moves on: no step costs time, so that the
\* waits for the tickers are the only delays.
DistTicker == <<"dist", 0>>
CollTicker == <<"coll", 0>>
MonTicker == <<"mon", 0>>
CheckTicker(w) == <<"chk", w>>

\* nothing is left to do before the next ticker fires
Quiet ==
    /\ hist.pending = {}
    /\ dist.pc = "idle" /\ coll.pc = "idle" /\ mon.pc = "idle"
    /\ \A w \in WorkerIds :
           alive[w] =>
               /\ chk[w].pc = "idle"
               /\ tasksChan[w] = << >> /\ resultsChan[w] = << >>
               /\ \A e \in 1..PoolSize : exec[w][e].pc = "idle"

\* a tenth of a second passes: the 100 ms tickers fire, and the monitor's
\* ticker every MonitorSeconds
Pass ==
    /\ hist.ds < MaxDs
    /\ Quiet
    /\ hist' = [hist EXCEPT
                  !.ds = @ + 1,
                  !.pending = {DistTicker, CollTicker}
                                \cup {CheckTicker(w) : w \in {v \in WorkerIds : alive[v]}}
                                \cup (IF (hist.ds + 1) % (MonitorSeconds * TicksPerSecond) = 0
                                      THEN {MonTicker} ELSE {})]
    /\ now' = (hist.ds + 1) \div TicksPerSecond
    /\ UNCHANGED <<created, storeVars, coordVars, workerVars, schedVars>>

\* distributeWork: case <-ticker.C; no available worker: continue
DistTickAt(order) ==
    /\ DistTicker \in hist.pending
    /\ dist.pc = "idle"
    /\ IF liveWorkers = {}
       THEN /\ dist' = dist
            /\ hist' = [hist EXCEPT !.pending = @ \ {DistTicker}]
       ELSE /\ dist' = [pc |-> "scan", avail |-> order, prio |-> NumPriorities,
                        batch |-> << >>]
            /\ hist' = [hist EXCEPT !.pending = @ \ {DistTicker},
                                    !.tickTop = HighestNonEmpty(queues),
                                    !.firstAssign = 0, !.enqSince = {}]
    /\ UNCHANGED <<now, created, storeVars, liveWorkers, coll, mon, workerVars, schedVars>>

\* collectResults: case <-ticker.C; HGetAll worker:<w>:results of a live worker
CollTickAt ==
    /\ CollTicker \in hist.pending
    /\ coll.pc = "idle"
    /\ LET ready == {w \in liveWorkers : outbox[w] # EmptyMap}
       IN  IF ready = {} THEN coll' = coll
           ELSE \E w \in ready :
                    coll' = [pc |-> "hset", w |-> w, snap |-> outbox[w], cur |-> 0]
    /\ hist' = [hist EXCEPT !.pending = @ \ {CollTicker}]
    /\ UNCHANGED <<now, created, storeVars, liveWorkers, dist, mon, workerVars, schedVars>>

\* monitorWorkers: case <-ticker.C; HGetAll workers
MonTickAt ==
    /\ MonTicker \in hist.pending
    /\ mon.pc = "idle"
    /\ mon' = IF registry = EmptyMap THEN mon
              ELSE [MonIdle EXCEPT !.pc = "loop", !.snap = registry, !.at = now]
    /\ hist' = [hist EXCEPT !.pending = @ \ {MonTicker}]
    /\ UNCHANGED <<now, created, storeVars, liveWorkers, dist, coll, workerVars, schedVars>>

\* checkForWork: case <-ticker.C; HGetAll worker:<w>:tasks
CheckTickAt(w) ==
    /\ alive[w]
    /\ CheckTicker(w) \in hist.pending
    /\ chk[w].pc = "idle"
    /\ chk' = IF inbox[w] = EmptyMap THEN chk
              ELSE [chk EXCEPT ![w] = [pc |-> "iter", snap |-> inbox[w], cur |-> 0]]
    /\ hist' = [hist EXCEPT !.pending = @ \ {CheckTicker(w)}]
    /\ UNCHANGED <<now, created, storeVars, coordVars, alive, tasksChan, resultsChan,
                   exec, steal, schedVars>>

\* Latency scenario: the coordinator has started, one worker of pool size 1
\* has registered, and one task is submitted at priority 5 with retries 0, all
\* at time 0; nothing fails.
NextLatency ==
    \/ hist.ds = 0 /\ \E id \in FreshIds \cap {1} : SubmitTask(id, 5, 0)
    \/ Pass
    \/ \E order \in Orders(liveWorkers) : DistTickAt(order)
    \/ DistScan
    \/ DistAssign
    \/ DistZRem
    \/ CollTickAt
    \/ \E id \in TaskIds : CollHSet(id)
    \/ CollHDel
    \/ MonTickAt
    \/ \E w \in WorkerIds : MonLive(w)
    \/ \E w \in WorkerIds : CheckTickAt(w)
    \/ \E w \in WorkerIds, id \in TaskIds : CheckSend(w, id)
    \/ \E w \in WorkerIds : CheckDel(w)
    \/ \E w \in WorkerIds, e \in 1..PoolSize : ExecStart(w, e)
    \/ \E w \in WorkerIds, e \in 1..PoolSize : ExecFinish(w, e)
    \/ \E w \in WorkerIds : SubmitResult(w)

SpecLatency == InitSalvage /\ [][NextLatency]_vars

\* C14: a task submitted at priority 5 with retries 0 (one coordinator, one
\* worker of pool size 1, no failures) is in results with status completed
\* once more than 5 seconds have passed since its submission.
C14_CompletedWithinFive ==
    (1 \in created /\ hist.ds > 5 * TicksPerSecond) =>
        (1 \in DOMAIN results /\ results[1].status = "completed")

\* Deadlines: tasks are scheduled at priority 5 with no deadline, a deadline
\* already past (one second before time 0), or a deadline 60 s, 120 s or
\* OverdueBonus + 60 s after time 0 (none of which passes during the run);
\* the coordinator distributes to one live worker.  A task is put on its queue
\* between the coordinator's ticks.
DeadlineChoices == {-1, 60, 120, OverdueBonus + 60}

NextDeadline ==
    \/ \E id \in FreshIn(DepIds) : SchedCall(id, 5, DefaultMaxRetries, {})
    \/ \E id \in FreshIn(DepIds), dl \in DeadlineChoices :
           SchedCallDeadline(id, 5, DefaultMaxRetries, dl)
    \/ dist.pc = "idle" /\ SchedZAdd
    \/ Tick
    \/ \E order \in Orders(liveWorkers) : DistTick(order)
    \/ DistScan
    \/ DistAssign
    \/ DistZRem

SpecDeadline == InitSched /\ [][NextDeadline]_vars

\* the deadline is past (task.IsOverdue; in SpecDeadline a deadline is past at
\* every time or at none)
IsOverdue(t) == t.has_deadline /\ t.deadline - now < 0

\* the time at which ScheduleTask computed the score of an entry whose deadline
\* was not past: score = now - (deadline - now)
EnqueuedAt(e) == IF e.task.has_deadline THEN (e.score + e.task.deadline) \div 2 ELSE e.score

\* C15: within one priority queue an entry enqueued with its deadline past has
\* a lower score than every entry that was not overdue (no deadline or a
\* future deadline).
C15_OverdueFirst ==
    \A p \in Priorities : \A a, b \in queues[p] :
        (IsOverdue(b.task) /\ ~IsOverdue(a.task)) => b.score < a.score

\* C16: of two entries of one priority queue enqueued at the same time, both
\* with future deadlines, the one with the nearer deadline has the lower score.
C16_NearerFirst ==
    \A p \in Priorities : \A a, b \in queues[p] :
        (/\ a.task.has_deadline /\ b.task.has_deadline
         /\ ~IsOverdue(a.task) /\ ~IsOverdue(b.task)
         /\ EnqueuedAt(a) = EnqueuedAt(b)
         /\ a.task.deadline < b.task.deadline) => a.score < b.score

\* the score with which a task is on queue p
ScoreOf(p, t) == (CHOOSE e \in queues[p] : e.task = t).score

Stopped(r) == [r EXCEPT !.pc = "stopped"]

Stop ==
    /\ dist.pc # "stopped"
    /\ mon.pc # "cleanup"
    /\ dist' = Stopped(DistIdle)
    /\ coll' = Stopped(CollIdle)
    /\ mon' = Stopped(MonIdle)
    /\ liveWorkers' = {}
    /\ UNCHANGED <<now, created, storeVars, workerVars, schedVars, hist>>

\* Start, cleanup: workers := HGetAll workers
CleanupRead ==
    /\ mon.pc = "stopped"
    /\ mon' = [mon EXCEPT !.pc = "cleanup", !.snap = registry]
    /\ UNCHANGED <<now, created, storeVars, liveWorkers, dist, coll, workerVars,
                   schedVars, hist>>

\* cleanup: pipe.Exec deletes the ten priority queues, the three buckets of
\* every worker read from the registry, workers, results and failed_tasks;
\* Start then spawns the three loops
CleanupExec ==
    /\ mon.pc = "cleanup"
    /\ queues' = [p \in Priorities |-> {}]
    /\ inbox' = [w \in WorkerIds |-> IF w \in DOMAIN mon.snap THEN EmptyMap ELSE inbox[w]]
    /\ outbox' = [w \in WorkerIds |-> IF w \in DOMAIN mon.snap THEN EmptyMap ELSE outbox[w]]
    /\ processing' = [w \in WorkerIds |->
                         IF w \in DOMAIN mon.snap THEN EmptyMap ELSE processing[w]]
    /\ registry' = EmptyMap
    /\ results' = EmptyMap
    /\ failedTasks' = EmptyMap
    /\ dist' = DistIdle
    /\ coll' = CollIdle
    /\ mon' = MonIdle
    /\ UNCHANGED <<now, created, waiting, depWaiters, legacyTasks, liveWorkers,
                   workerVars, schedVars, hist>>

NextRestart ==
    \/ \E id \in FreshIds : SubmitTask(id, 1, DefaultMaxRetries)
    \/ \E order \in Orders(liveWorkers) : DistTick(order)
    \/ DistScan
    \/ DistAssign
    \/ DistZRem
    \/ MonRead
    \/ \E w \in WorkerIds : MonLive(w)
    \/ \E w \in WorkerIds : MonDead(w)
    \/ MonFetch
    \/ \E id \in TaskIds : MonPush(id)
    \/ MonDelTasks
    \/ MonDelResults
    \/ \E w \in WorkerIds : Crash(w)
    \/ Lapse
    \/ Stop
    \/ CleanupRead
    \/ CleanupExec

SpecRestart == InitSalvage /\ [][NextRestart]_vars

\* C18: when a starting coordinator runs its cleanup, every task in the inbox
\* or processing bucket of a worker that is no longer in the registry is on a
\* priority queue afterwards.
C18_OrphansReinjected ==
    [][(mon.pc = "cleanup" /\ mon'.pc = "idle") =>
           \A w \in WorkerIds \ DOMAIN registry :
               \A id \in (DOMAIN inbox[w]) \cup (DOMAIN processing[w]) :
                   InSomeQueue(id)']_vars

\* Store errors: the pipeline with one worker that stays up, where the HSet of
\* submitResults may fail.
NextStoreError ==
    \/ \E id \in FreshIds : SubmitTask(id, 1, DefaultMaxRetries)
    \/ \E w \in WorkerIds : SubmitResultFails(w)
    \/ Pipeline(TaskIds)

SpecStoreError == InitSched /\ [][NextStoreError]_vars

\* the result of task id is waiting in a worker's results channel
ResultPending(id) ==
    \E w \in WorkerIds : \E i \in 1..Len(resultsChan[w]) : resultsChan[w][i].task_id = id

\* C19: the result of every executed task is in the worker's results channel,
\* in a worker's results bucket or in results: none is dropped when the write
\* to the bucket fails.
C19_NoResultDropped ==
    \A i \in 1..Len(hist.done) :
        \/ ResultPending(hist.done[i])
        \/ \E w \in WorkerIds : hist.done[i] \in DOMAIN outbox[w]
        \/ hist.done[i] \in DOMAIN results

\* Failed dependencies: the scheduler in front of the pipeline, where an inbox
\* entry may fail to parse and go to failed_tasks; OnTaskComplete is called
\* for tasks that have a result or an entry in failed_tasks.
NextFailed ==
    \/ \E id \in FreshIn(DepIds) :
         \E deps \in (IF id = 1 THEN SUBSET (DepIds \ {id}) ELSE {{}}) :
           SchedCall(id, 1, DefaultMaxRetries, deps)
    \/ \E d \in DepIds : SchedCheck(d)
    \/ SchedPark
    \/ \E d \in DepIds : SchedTrack(d)
    \/ SchedZAdd
    \/ \E id \in (DOMAIN results) \cup (DOMAIN failedTasks) : ComplCall(id)
    \/ \E b \in DepIds : ComplGet(b)
    \/ \E d \in DepIds : ComplCheck(d)
    \/ ComplDel
    \/ ComplZAdd
    \/ ComplCleanup
    \/ \E w \in WorkerIds, id \in DepIds : CheckFail(w, id)
    \/ Pipeline(DepIds)

SpecFailed == InitSched /\ [][NextFailed]_vars

\* dependency d of a parked task is in failed_tasks and not in results
FailedOnly(d) == d \in DOMAIN failedTasks /\ d \notin DOMAIN results

\* C20: a task parked in waiting with a dependency that is in failed_tasks and
\* not in results stays in waiting and is put on no priority queue, whatever
\* OnTaskComplete call runs.
C20_FailedDependencyBlocks ==
    [][\A b \in DOMAIN waiting :
           (\E d \in waiting[b].deps : FailedOnly(d)) =>
               (b \in DOMAIN waiting' /\ ~InSomeQueue(b)')]_vars

\* a task is parked on one dependency with a result and one in failed_tasks
\* only, and OnTaskComplete has run to its end for both
C20_Witness ==
    \E b \in DOMAIN waiting : \E d, r \in waiting[b].deps :
        /\ FailedOnly(d)
        /\ r \in DOMAIN results
        /\ {d, r} \subseteq hist.notified
        /\ compl.pc = "idle"
        /\ depWaiters[d] = {} /\ depWaiters[r] = {}

\* Failed results: the pipeline with one worker, where a result of status
\* failed (task.StatusFailed, which processTask itself never sets) is put in
\* the worker's results bucket by another writer of the store.
HSetFailedResult(w, id) ==
    /\ id \notin DOMAIN outbox[w]
    /\ outbox' = [outbox EXCEPT ![w] =
                     MapSet(@, id, [NewResult(NewTask(id), w) EXCEPT !.status = "failed"])]
    /\ UNCHANGED <<now, created, queues, waiting, depWaiters, registry, inbox,
                   processing, results, failedTasks, legacyTasks>>
    /\ UNCHANGED <<coordVars, workerVars, schedVars, hist>>

NextReap ==
    \/ \E id \in FreshIds : SubmitTask(id, 1, DefaultMaxRetries)
    \/ \E w \in liveWorkers, id \in TaskIds : HSetFailedResult(w, id)
    \/ Pipeline(TaskIds)

SpecReap == InitSched /\ [][NextReap]_vars

\* C21: collectResults writes a failed result into failed_tasks and not into
\* results, writes a completed result into results, and then deletes the entry
\* from the worker's results bucket.
C21_ReapByStatus ==
    [][/\ (coll.pc = "hset" /\ coll'.pc = "hdel") =>
              LET r == coll.snap[coll'.cur]
              IN  IF r.status = "failed"
                  THEN /\ coll'.cur \in DOMAIN failedTasks'
                       /\ results' = results
                  ELSE /\ coll'.cur \in DOMAIN results'
                       /\ results'[coll'.cur] = r
       /\ (coll.pc = "hdel" /\ coll'.pc # "hdel") =>
              coll.cur \notin DOMAIN outbox'[coll.w]]_vars

\* C22: every task in a worker's inbox has status assigned, and every task in
\* a worker's processing bucket has status processing.
C22_BucketStatus ==
    \A w \in WorkerIds :
        /\ \A id \in DOMAIN inbox[w] : inbox[w][id].status = "assigned"
        /\ \A id \in DOMAIN processing[w] : processing[w][id].status = "processing"

\* Heartbeats: two registered workers, of which worker 1 runs and worker 2's
\* process is gone; a running worker's sendHeartbeat ticker fires when its
\* entry is HeartbeatSeconds old.
\* Time advances by the monitor's period, and not past a heartbeat that is due.
\* Tasks are submitted and distributed; the monitor reads at any time.
TickBeat ==
    /\ now < MaxBeatClock
    /\ \A w \in DOMAIN registry :
           alive[w] => now + MonitorSeconds - registry[w] <= HeartbeatSeconds
    /\ now' = now + MonitorSeconds
    /\ UNCHANGED <<created, storeVars, coordVars, workerVars, schedVars, hist>>

NextBeat ==
    \/ \E id \in FreshIds \cap {1} : SubmitTask(id, 1, DefaultMaxRetries)
    \/ \E order \in Orders(liveWorkers) : DistTick(order)
    \/ DistScan
    \/ DistAssign
    \/ DistZRem
    \/ MonRead
    \/ \E w \in WorkerIds : MonLive(w)
    \/ \E w \in WorkerIds : MonDead(w)
    \/ MonFetch
    \/ \E id \in {1} : MonPush(id)
    \/ MonDelTasks
    \/ MonDelResults
    \/ \E w \in DOMAIN registry :
           now - registry[w] = HeartbeatSeconds /\ Heartbeat(w)
    \/ TickBeat

InitBeat == InitWith({}, WorkerIds, {}, {1})

SpecBeat == InitBeat /\ [][NextBeat]_vars

\* C23: the monitor takes a running worker, whose entry in workers is refreshed
\* every 10 s, neither out of the live set nor out of workers, and neither
\* salvages nor deletes its buckets.
C23_HeartbeatKeepsWorker ==
    [][\A w \in WorkerIds :
           alive[w] =>
               /\ w \in liveWorkers => w \in liveWorkers'
               /\ w \in DOMAIN registry => w \in DOMAIN registry'
               /\ DOMAIN inbox[w] \subseteq DOMAIN inbox'[w]
               /\ ~(mon'.pc \in {"fetch", "push", "delres"} /\ mon'.w = w)]_vars

\* the monitor has removed a crashed worker while a running worker with a
\* task in its inbox, whose entry it has read 10 s after its refresh, is live
C23_Witness ==
    \E w, v \in WorkerIds :
        /\ alive[w] /\ w \in liveWorkers /\ w \in DOMAIN registry
        /\ inbox[w] # EmptyMap
        /\ mon.pc = "idle"
        /\ now - registry[w] = HeartbeatSeconds
        /\ now > LiveTimeout
        /\ ~alive[v] /\ v \notin DOMAIN registry

\* Round robin: a static live set of all workers, none of which takes work out
\* of its inbox, so that an inbox holds what distributeWork has assigned to it.
InitRobin == InitWith({}, WorkerIds, WorkerIds, WorkerIds)

NextRobin ==
    \/ \E id \in FreshIn(DepIds) : SubmitTask(id, 1, DefaultMaxRetries)
    \/ \E order \in Orders(liveWorkers) : DistTick(order)
    \/ DistScan
    \/ DistAssign
    \/ DistZRem

SpecRobin == InitRobin /\ [][NextRobin]_vars

\* C24: the numbers of tasks distributeWork has assigned to any two live
\* workers differ by at most 1.
C24_RoundRobin ==
    \A w, v \in liveWorkers :
        Cardinality(DOMAIN inbox[w]) - Cardinality(DOMAIN inbox[v]) <= 1

\* Poison entries: the pipeline with one worker, where another writer of the
\* store puts bytes that are no task JSON into the worker's inbox.  The entry
\* is carried as a task record of status "unparsable"; json.Unmarshal fails on
\* it and succeeds on every other entry.
Parses(entry) == entry.status # "unparsable"

HSetUnparsable(w, id) ==
    /\ id \notin DOMAIN inbox[w]
    /\ inbox' = [inbox EXCEPT ![w] =
                    MapSet(@, id, [NewTask(id) EXCEPT !.status = "unparsable"])]
    /\ UNCHANGED <<now, created, queues, waiting, depWaiters, registry, processing,
                   outbox, results, failedTasks, legacyTasks>>
    /\ UNCHANGED <<coordVars, workerVars, schedVars, hist>>

NextPoison ==
    \/ \E id \in FreshIds : SubmitTask(id, 1, DefaultMaxRetries)
    \/ \E w \in liveWorkers, id \in DepIds \ TaskIds : HSetUnparsable(w, id)
    \/ \E order \in Orders(liveWorkers) : DistTick(order)
    \/ DistScan
    \/ DistAssign
    \/ DistZRem
    \/ \E w \in WorkerIds : CheckRead(w)
    \/ \E w \in WorkerIds, id \in DepIds :
           /\ id \in DOMAIN chk[w].snap
           /\ IF Parses(chk[w].snap[id]) THEN CheckSend(w, id) ELSE CheckFail(w, id)
    \/ \E w \in WorkerIds : CheckDel(w)
    \/ \E w \in WorkerIds, e \in 1..PoolSize : ExecStart(w, e)
    \/ \E w \in WorkerIds, e \in 1..PoolSize : ExecFinish(w, e)
    \/ \E w \in WorkerIds : SubmitResult(w)

SpecPoison == InitSched /\ [][NextPoison]_vars

\* C25: an inbox entry that does not deserialize is written as it is to
\* failed_tasks under its task id and removed from the inbox by checkForWork;
\* it reaches no executor (not the channel, not an executor, not the
\* processing bucket) and no priority queue.
C25_PoisonPill ==
    [][/\ \A w \in WorkerIds :
              /\ \A i \in 1..Len(tasksChan'[w]) : Parses(tasksChan'[w][i])
              /\ \A e \in 1..PoolSize : exec'[w][e].pc = "work" => Parses(exec'[w][e].task)
              /\ \A id \in DOMAIN processing'[w] : Parses(processing'[w][id])
              /\ (chk[w].pc = "del" /\ chk'[w].pc # "del"
                  /\ ~Parses(chk[w].snap[chk[w].cur])) =>
                     /\ chk[w].cur \in DOMAIN failedTasks'
                     /\ failedTasks'[chk[w].cur] = chk[w].snap[chk[w].cur]
                     /\ chk[w].cur \notin DOMAIN inbox'[w]
       /\ \A p \in Priorities : \A e \in queues'[p] : Parses(e.task)]_vars

\* checkForWork has moved an unparsable entry to failed_tasks and taken it out
\* of the inbox, in a pass that also handed a task to the executors
C25_Witness ==
    \E w \in WorkerIds : \E id \in DOMAIN failedTasks :
        /\ ~Parses(failedTasks[id])
        /\ id \notin DOMAIN inbox[w]
        /\ chk[w].pc = "idle"
        /\ hist.taken[w] # {}

\* ------------------------------------------------------- Worker shutdown
\* hist.cancelled holds the workers whose context has been cancelled,
\* hist.returned those whose Start has returned.  With a cancelled context
\* every store command of the worker returns context.Canceled at once and
\* changes nothing.

\* the signal handler's cancel()
Cancel(w) ==
    /\ alive[w]
    /\ w \notin hist.cancelled
    /\ hist' = [hist EXCEPT !.cancelled = @ \cup {w}]
    /\ UNCHANGED <<now, created, storeVars, coordVars, workerVars, schedVars>>

\* checkForWork after the hand-off: HDel worker:<w>:tasks fails
CheckDelCancelled(w) ==
    /\ alive[w]
    /\ w \in hist.cancelled
    /\ chk[w].pc = "del"
    /\ LET rest == MapDel(chk[w].snap, chk[w].cur)
       IN  chk' = [chk EXCEPT ![w] =
                     IF rest = EmptyMap THEN ChkIdle
                     ELSE [pc |-> "iter", snap |-> rest, cur |-> 0]]
    /\ UNCHANGED <<now, created, storeVars, coordVars, alive, tasksChan, resultsChan,
                   exec, steal, schedVars, hist>>

\* processTask's select takes t := <-w.tasks although ctx.Done() is ready;
\* HSet worker:<w>:processing fails
ExecStartCancelled(w, e) ==
    /\ alive[w]
    /\ w \in hist.cancelled
    /\ exec[w][e].pc = "idle"
    /\ tasksChan[w] # << >>
    /\ exec' = [exec EXCEPT ![w][e] =
                   [pc |-> "work", task |-> [Head(tasksChan[w]) EXCEPT !.status = "processing"]]]
    /\ tasksChan' = [tasksChan EXCEPT ![w] = Tail(@)]
    /\ UNCHANGED <<now, created, storeVars, coordVars, alive, resultsChan, chk, steal,
                   schedVars, hist>>

\* the sleep ends: result.Status = completed; HDel worker:<w>:processing
\* fails; the result is sent on w.results
ExecFinishCancelled(w, e) ==
    /\ alive[w]
    /\ w \in hist.cancelled
    /\ exec[w][e].pc = "work"
    /\ resultsChan' = [resultsChan EXCEPT ![w] =
                         IF Len(@) < ResultChanCap
                         THEN Append(@, NewResult(exec[w][e].task, w)) ELSE @]
    /\ hist' = [hist EXCEPT !.done = Append(@, exec[w][e].task.id)]
    /\ exec' = [exec EXCEPT ![w][e] = ExecIdle]
    /\ UNCHANGED <<now, created, storeVars, coordVars, alive, tasksChan, chk, steal,
                   schedVars>>

\* processTask's select takes <-ctx.Done() or <-w.shutdown: return, wg.Done()
ExecExit(w, e) ==
    /\ alive[w]
    /\ w \in hist.cancelled
    /\ exec[w][e].pc = "idle"
    /\ exec' = [exec EXCEPT ![w][e].pc = "exited"]
    /\ UNCHANGED <<now, created, storeVars, coordVars, alive, tasksChan, resultsChan,
                   chk, steal, schedVars, hist>>

\* (variant: Start returns without w.wg.Wait())
StartReturnNoWait(w) ==
    /\ alive[w]
    /\ w \in hist.cancelled
    /\ hist' = [hist EXCEPT !.returned = @ \cup {w}]
    /\ alive' = [alive EXCEPT ![w] = FALSE]
    /\ tasksChan' = [tasksChan EXCEPT ![w] = << >>]
    /\ resultsChan' = [resultsChan EXCEPT ![w] = << >>]
    /\ chk' = [chk EXCEPT ![w] = ChkIdle]
    /\ UNCHANGED <<now, created, storeVars, coordVars, exec, steal, schedVars>>

\* Start: <-ctx.Done(); close(w.shutdown); w.wg.Wait(); return ctx.Err().
\* runWorker then ends the process with logger.Fatalf: the other loops and
\* the channels are gone.
StartReturn(w) ==
    /\ alive[w]
    /\ w \in hist.cancelled
    /\ \A e \in 1..PoolSize : exec[w][e].pc = "exited"
    /\ hist' = [hist EXCEPT !.returned = @ \cup {w}]
    /\ alive' = [alive EXCEPT ![w] = FALSE]
    /\ tasksChan' = [tasksChan EXCEPT ![w] = << >>]
    /\ resultsChan' = [resultsChan EXCEPT ![w] = << >>]
    /\ chk' = [chk EXCEPT ![w] = ChkIdle]
    /\ UNCHANGED <<now, created, storeVars, coordVars, exec, steal, schedVars>>

\* One worker with its loops, the coordinator distributing and reaping; the
\* worker's context may be cancelled at any moment.
NextShutdown ==
    \/ \E id \in FreshIds : SubmitTask(id, 1, DefaultMaxRetries)
    \/ \E order \in Orders(liveWorkers) : DistTick(order)
    \/ DistScan
    \/ DistAssign
    \/ DistZRem
    \/ \E w \in WorkerIds : CollRead(w)
    \/ \E id \in TaskIds : CollHSet(id)
    \/ CollHDel
    \/ \E w \in WorkerIds \ hist.cancelled : CheckRead(w)
    \/ \E w \in WorkerIds, id \in TaskIds : CheckSend(w, id)
    \/ \E w \in WorkerIds \ hist.cancelled : CheckDel(w)
    \/ \E w \in WorkerIds : CheckDelCancelled(w)
    \/ \E w \in WorkerIds \ hist.cancelled, e \in 1..PoolSize : ExecStart(w, e)
    \/ \E w \in WorkerIds \ hist.cancelled, e \in 1..PoolSize : ExecFinish(w, e)
    \/ \E w \in WorkerIds \ hist.cancelled : SubmitResult(w)
    \/ \E w \in WorkerIds : Cancel(w)
    \/ \E w \in WorkerIds, e \in 1..PoolSize : ExecStartCancelled(w, e)
    \/ \E w \in WorkerIds, e \in 1..PoolSize : ExecFinishCancelled(w, e)
    \/ \E w \in hist.cancelled : SubmitResultFails(w)
    \/ \E w \in WorkerIds, e \in 1..PoolSize : ExecExit(w, e)
    \/ \E w \in WorkerIds : StartReturn(w)

\* the scheduler runs every goroutine that can take a step, and a sleep ends
SpecShutdown ==
    /\ InitSched
    /\ [][NextShutdown]_vars
    /\ WF_vars(\E w \in WorkerIds, e \in 1..PoolSize : ExecFinishCancelled(w, e))
    /\ WF_vars(\E w \in WorkerIds, e \in 1..PoolSize : ExecExit(w, e))
    /\ WF_vars(\E w \in WorkerIds : StartReturn(w))

\* C26: after the worker's context is cancelled Start eventually returns; it
\* returns only when every executor has exited; and an executor exits from
\* its select only, never from the middle of a task.
C26_StartWaitsForExecutors ==
    /\ \A w \in WorkerIds : (w \in hist.cancelled) ~> (w \in hist.returned)
    /\ [](\A w \in hist.returned : \A e \in 1..PoolSize : exec[w][e].pc = "exited")
    /\ [][\A w \in WorkerIds : \A e \in 1..PoolSize :
              (exec[w][e].pc = "work" /\ exec'[w][e].pc # "work") =>
                  (exec'[w][e].pc = "idle" /\ Len(hist'.done) = Len(hist.done) + 1)]_vars

\* Start has returned for a worker that was cancelled while its executor was
\* at work on a task (the task was finished, and is still in the processing
\* bucket because the HDel failed)
C26_Witness ==
    \E w \in hist.returned : \E i \in 1..Len(hist.done) :
        hist.done[i] \in DOMAIN processing[w]

\* C27: when Start has returned, every result an executor of the worker has
\* produced has been written to the worker's results bucket (where it is, or
\* from where it has been reaped into results).
C27_ResultsDrained ==
    \A w \in hist.returned : \A i \in 1..Len(hist.done) :
        hist.done[i] \in hist.taken[w] =>
            (hist.done[i] \in DOMAIN outbox[w] \/ hist.done[i] \in DOMAIN results)

\* ------------------------------------------------------------ admin server
\* hist.adminCalls counts the requests served by handleStopWorker and
\* handleReset.

\* handleStopWorker: HDel workers <id>; Del worker:<id>:tasks, :results,
\* :processing
HandleStopWorker(w) ==
    /\ hist.adminCalls < MaxAdminCalls
    /\ registry' = MapDel(registry, w)
    /\ inbox' = [inbox EXCEPT ![w] = EmptyMap]
    /\ outbox' = [outbox EXCEPT ![w] = EmptyMap]
    /\ processing' = [processing EXCEPT ![w] = EmptyMap]
    /\ hist' = [hist EXCEPT !.adminCalls = @ + 1]
    /\ UNCHANGED <<now, created, queues, waiting, depWaiters, results, failedTasks,
                   legacyTasks, coordVars, workerVars, schedVars>>

\* handleReset: the pipeline deletes the ten priority queues, the buckets of
\* every worker in workers, workers, results and failed_tasks
HandleReset ==
    /\ hist.adminCalls < MaxAdminCalls
    /\ queues' = [p \in Priorities |-> {}]
    /\ inbox' = [w \in WorkerIds |-> IF w \in DOMAIN registry THEN EmptyMap ELSE inbox[w]]
    /\ outbox' = [w \in WorkerIds |-> IF w \in DOMAIN registry THEN EmptyMap ELSE outbox[w]]
    /\ processing' = [w \in WorkerIds |->
                         IF w \in DOMAIN registry THEN EmptyMap ELSE processing[w]]
    /\ registry' = EmptyMap
    /\ results' = EmptyMap
    /\ failedTasks' = EmptyMap
    /\ hist' = [hist EXCEPT !.adminCalls = @ + 1]
    /\ UNCHANGED <<now, created, waiting, depWaiters, legacyTasks, coordVars,
                   workerVars, schedVars>>

\* the pipeline with one worker, and the admin server's handlers
NextAdmin ==
    \/ \E id \in FreshIds : SubmitTask(id, 1, DefaultMaxRetries)
    \/ \E w \in WorkerIds : HandleStopWorker(w)
    \/ HandleReset
    \/ Pipeline(TaskIds)

SpecAdmin == InitSched /\ [][NextAdmin]_vars

\* C28: a request served by the worker-stop or the reset handler leaves the
\* priority queues, workers, the workers' buckets, results and failed_tasks
\* as they were.
C28_AdminFrame ==
    [][hist'.adminCalls # hist.adminCalls =>
           /\ queues' = queues
           /\ registry' = registry
           /\ inbox' = inbox /\ processing' = processing /\ outbox' = outbox
           /\ results' = results
           /\ failedTasks' = failedTasks]_vars

\* --------------------------------------------------------------- AutoScaler
\* hist.scaler is the AutoScaler with the metrics it reads: min and max are
\* minWorkers and maxWorkers, active is metrics.ActiveWorkers, pool the number
\* of tokens in workerPool, idle and queue are metrics.IdleWorkers and
\* metrics.QueueLength, since the seconds since lastScaling (30 stands for 30
\* or more), last the outcome of the latest adjust.
Int32Half == 2^30

\* activeWorkers*2 in int32
DoubleInt32(a) ==
    IF a >= Int32Half THEN ((a - Int32Half) - Int32Half) + ((a - Int32Half) - Int32Half)
    ELSE a * 2

\* hist.executors counts the processTask goroutines that run for the scaler's
\* worker: Worker.Start starts poolSize of them, a scale-up one for each token
\* it adds, and each runs until the worker shuts down.
MaxExecutors == 5

\* the minWorkers and maxWorkers a scaler is made with
ScalerMins == {1, 2, Int32Half}

\* NewAutoScaler(mn, mx, metrics) with fresh metrics, and Start: minWorkers
\* tokens go into workerPool (capacity maxWorkers), ActiveWorkers is raised
\* by one for each
ScalerStart(mn, mx) ==
    /\ ~hist.scaler.started
    /\ mn <= mx
    /\ hist' = [hist EXCEPT !.scaler = [@ EXCEPT !.started = TRUE, !.min = mn, !.max = mx,
                                                 !.active = @ + mn, !.pool = mn]]
    /\ UNCHANGED <<now, created, storeVars, coordVars, workerVars, schedVars>>

\* the worker's loops store metrics.QueueLength and move metrics.IdleWorkers
SetMetrics(q, i) ==
    /\ hist.scaler.started
    /\ <<q, i>> # <<hist.scaler.queue, hist.scaler.idle>>
    /\ hist' = [hist EXCEPT !.scaler = [@ EXCEPT !.queue = q, !.idle = i]]
    /\ UNCHANGED <<now, created, storeVars, coordVars, workerVars, schedVars>>

\* (variant: scale down whenever enough executors are idle)
ScaleDownIdle(sc) == sc.idle > sc.min \div 2

\* idleWorkers > as.minWorkers/2 && activeWorkers > as.minWorkers
ScaleDown(sc) == sc.idle > sc.min \div 2 /\ sc.active > sc.min

\* queueLength > int64(activeWorkers*2) && activeWorkers < as.maxWorkers
ScaleUp(sc) == sc.queue > DoubleInt32(sc.active) /\ sc.active < sc.max

\* adjust, CooldownSeconds or more after lastScaling
Adjusted(sc) ==
    IF ScaleUp(sc)
    THEN LET toAdd == Min({sc.max - sc.active, ScaleStep})
             added == Min({toAdd, sc.max - sc.pool})
         IN  [sc EXCEPT !.active = @ + added, !.pool = @ + added,
                        !.since = IF added = toAdd THEN 0 ELSE @,
                        !.last = IF added > 0 THEN "up" ELSE "none"]
    ELSE IF ScaleDown(sc) /\ sc.pool > 0
         THEN [sc EXCEPT !.active = @ - 1, !.pool = @ - 1, !.since = 0, !.last = "down"]
         ELSE [sc EXCEPT !.last = "none"]

\* monitor: the 10 s ticker fires and adjust runs; it returns at once when
\* less than 30 s have passed since lastScaling
ScalerTick ==
    /\ hist.scaler.started
    /\ LET sc == [hist.scaler EXCEPT !.since = Min({@ + ScalerSeconds, CooldownSeconds})]
           to == IF sc.since < CooldownSeconds THEN [sc EXCEPT !.last = "none"]
                 ELSE Adjusted(sc)
       IN  hist' = [hist EXCEPT !.scaler = to,
                                !.executors = @ + Max({0, to.pool - sc.pool})]
    /\ hist'.scaler # hist.scaler
    /\ hist'.executors <= MaxExecutors
    /\ UNCHANGED <<now, created, storeVars, coordVars, workerVars, schedVars>>

NextScale ==
    \/ \E mn \in ScalerMins, d \in 0..ScaleStep : ScalerStart(mn, mn + d)
    \/ \E q \in 0..MaxQueueLength, i \in 0..MaxIdle : SetMetrics(q, i)
    \/ ScalerTick

SpecScale == InitSched /\ [][NextScale]_vars

C30_ScaleUpGuard ==
    [][(hist.scaler.started /\ hist'.scaler.active > hist.scaler.active) =>
           /\ hist.scaler.queue - hist.scaler.active > hist.scaler.active
           /\ hist.scaler.active < hist.scaler.max
           /\ hist'.scaler.active - hist.scaler.active <= ScaleStep
           /\ hist'.scaler.active <= hist.scaler.max]_vars

\* The AutoScaler next to its Worker: Worker.Start, called once, stores the
\* pool size in the metrics.ActiveWorkers and metrics.IdleWorkers that the
\* scaler counts in.
WorkerStartStore(poolSize) ==
    /\ hist.scaler.started
    /\ ~hist.workerStarted
    /\ hist' = [hist EXCEPT !.workerStarted = TRUE, !.executors = @ + poolSize,
                            !.scaler = [@ EXCEPT !.active = poolSize, !.idle = poolSize]]
    /\ UNCHANGED <<now, created, storeVars, coordVars, workerVars, schedVars>>

NextScaleWorker ==
    \/ \E mn \in {1, 2}, d \in 0..ScaleStep : ScalerStart(mn, mn + d)
    \/ \E ps \in 1..PoolSize : WorkerStartStore(ps)
    \/ \E q \in 0..MaxQueueLength, i \in 0..MaxIdle : SetMetrics(q, i)
    \/ ScalerTick

SpecScaleWorker == InitSched /\ [][NextScaleWorker]_vars

\* C31: the tick that follows a scaling action (10 s later, within the
\* cooldown) starts and retires no executor.
C31_CooldownAfterScaling ==
    [][(hist.scaler.last # "none" /\ hist'.scaler.since # hist.scaler.since) =>
           hist'.scaler.active = hist.scaler.active]_vars

\* C32: a scale-down leaves one running executor less, and the
\* active-executor count then equals the number of running executors.
C32_ScaleDownRetires ==
    [][hist'.scaler.pool < hist.scaler.pool =>
           /\ hist'.executors = hist.executors - 1
           /\ hist'.scaler.active = hist'.executors]_vars

\* One steal pass next to the distribute loop: NumPassTasks tasks are queued
\* at priority 1, the coordinator knows worker 1 only and keeps assigning to
\* it while worker 2's WorkStealer reads worker 1's inbox; worker 1's
\* checkForWork drains the inbox.
NumPassTasks == 4

PassIds == 1..NumPassTasks

InitStealPass == InitWith(PassIds, WorkerIds, {1}, WorkerIds)

NextStealPass ==
    \/ \E order \in Orders(liveWorkers) : DistTick(order)
    \/ DistScan
    \/ DistAssign
    \/ DistZRem
    \/ CheckRead(1)
    \/ \E id \in PassIds : CheckSend(1, id)
    \/ CheckDel(1)
    \/ StealList(2)
    \/ \E target \in WorkerIds : StealProbe(2, target)
    \/ StealFetch(2)
    \/ \E id \in PassIds : StealSetNX(2, id)
    \/ StealDel(2)

SpecStealPass == InitStealPass /\ [][NextStealPass]_vars

\* the HDel of stealTasks: worker w leaves position "del"
StealTakes(w, half) ==
    \A t \in WorkerIds :
        inbox'[t] # inbox[t] =>
            /\ t = steal[w].target
            /\ t # w
            /\ steal[w].queueLen > StealThreshold
            /\ steal[w].cur \in DOMAIN steal[w].snap
            /\ steal[w].stolen + 1 <= half

\* C33: a steal pass takes entries only from a sibling whose inbox held more
\* than 2 entries when HLen read it, only entries that its HGetAll read, at
\* most half (rounded down) of the number of entries HGetAll read, and never
\* from the stealer's own inbox.
C33_StealPass ==
    [][\A w \in WorkerIds :
           (steal[w].pc = "del" /\ steal'[w].pc # "del") =>
               StealTakes(w, steal[w].read \div 2)]_vars

\* a finished pass has moved two of the four entries it read
C33_Witness ==
    /\ steal[2].pc \in {"idle", "probe"}
    /\ Cardinality(DOMAIN inbox[2]) = 2
    /\ Cardinality(DOMAIN inbox[1]) = 2

\* C33 as stated: at most half of the size that was read first (HLen)
C33_HalfOfSize ==
    [][\A w \in WorkerIds :
           (steal[w].pc = "del" /\ steal'[w].pc # "del") =>
               StealTakes(w, steal[w].queueLen \div 2)]_vars

\* A result and the monitor: task 1 is queued, worker 1 is registered and
\* running, and monitorWorkers has not ticked yet; the worker may crash, and
\* the clock may pass the liveness gate.
InitOutbox == InitWith({1}, {1}, {}, {1})

NextOutbox ==
    \/ Pipeline({1})
    \/ MonRead
    \/ MonLive(1)
    \/ MonDead(1)
    \/ MonFetch
    \/ MonPush(1)
    \/ MonDelTasks
    \/ MonDelResults
    \/ Crash(1)
    \/ Lapse

\* the coordinator's loops run on tickers: each takes the step it is at
SpecOutbox ==
    /\ InitOutbox
    /\ [][NextOutbox]_vars
    /\ WF_vars(\E w \in WorkerIds : CollRead(w))
    /\ WF_vars(CollHSet(1))
    /\ WF_vars(CollHDel)
    /\ WF_vars(MonRead)
    /\ WF_vars(MonLive(1) \/ MonDead(1))
    /\ WF_vars(MonFetch \/ MonPush(1) \/ MonDelTasks \/ MonDelResults)

InitAssignRace == InitWith(TaskIds, {1}, {1}, {})

NextAssignRace ==
    \/ \E order \in Orders(liveWorkers) : DistTick(order)
    \/ DistScan
    \/ DistAssign
    \/ DistZRem
    \/ MonRead
    \/ MonLive(1)
    \/ MonDead(1)
    \/ MonFetch
    \/ \E id \in TaskIds : MonPush(id)
    \/ MonDelTasks
    \/ MonDelResults
    \/ Lapse

SpecAssignRace == InitAssignRace /\ [][NextAssignRace]_vars

\* C35: when distributeWork and monitorWorkers have both finished their
\* pass, every task is in a priority queue or in a worker's inbox -- or at
\* least on the list the salvage pushes an inbox's tasks to.
C35_AssignedNotLost ==
    (dist.pc = "idle" /\ mon.pc = "idle") =>
        \A id \in created :
            \/ InSomeQueue(id)
            \/ \E w \in WorkerIds : id \in DOMAIN inbox[w]
            \/ \E i \in 1..Len(legacyTasks) : legacyTasks[i].id = id

\* The live set and the workers hash: both workers are in the hash and in
\* c.workers, and neither runs (none sends a heartbeat or registers again);
\* the admin server's worker-stop and reset handlers remove entries from the
\* hash while distributeWork and monitorWorkers run.
InitUnregistered == InitWith({}, WorkerIds, WorkerIds, {})

NextUnregistered ==
    \/ \E id \in FreshIds : SubmitTask(id, 1, DefaultMaxRetries)
    \/ \E w \in WorkerIds : HandleStopWorker(w)
    \/ HandleReset
    \/ \E order \in Orders(liveWorkers) : DistTick(order)
    \/ DistScan
    \/ DistAssign
    \/ DistZRem
    \/ MonRead
    \/ \E w \in WorkerIds : MonLive(w)
    \/ \E w \in WorkerIds : MonDead(w)
    \/ MonFetch
    \/ \E id \in TaskIds : MonPush(id)
    \/ MonDelTasks
    \/ MonDelResults
    \/ Lapse

\* monitorWorkers and distributeWork run on their tickers: each takes every
\* step it is at
SpecUnregistered ==
    /\ InitUnregistered
    /\ [][NextUnregistered]_vars
    /\ WF_vars(\E order \in Orders(liveWorkers) : DistTick(order))
    /\ WF_vars(DistScan)
    /\ WF_vars(DistAssign)
    /\ WF_vars(DistZRem)
    /\ WF_vars(MonRead)
    /\ WF_vars(\E w \in WorkerIds : MonLive(w) \/ MonDead(w))
    /\ WF_vars(MonFetch \/ (\E id \in TaskIds : MonPush(id)) \/ MonDelTasks \/ MonDelResults)

\* C36: a worker that has no entry in the workers hash (and does not register
\* again) is eventually, with the monitor's next tick, out of c.workers, the
\* set distributeWork assigns to.
C36_LiveSetFollowsWorkers ==
    \A w \in WorkerIds : (w \notin DOMAIN registry) ~> (w \notin liveWorkers)

\* A full results channel: worker 1 has executed ResultChanCap tasks whose
\* results wait in w.results for submitResults (its HSet calls are slow, not
\* failing), and task 1 is assigned to it.
BacklogResults == [i \in 1..ResultChanCap |-> NewResult(NewTask(NumTasks + i), 1)]

InitBacklog ==
    /\ now = 0
    /\ created = 1..(NumTasks + ResultChanCap) \ {NumTasks}
    /\ taskObj = EmptyMap
    /\ queues = [p \in Priorities |-> {}]
    /\ waiting = EmptyMap
    /\ depWaiters = [d \in DepIds |-> {}]
    /\ registry = [w \in {1} |-> 0]
    /\ inbox = [w \in WorkerIds |-> IF w = 1 THEN MapSet(EmptyMap, 1, NewTask(1)) ELSE EmptyMap]
    /\ processing = [w \in WorkerIds |-> EmptyMap]
    /\ outbox = [w \in WorkerIds |-> EmptyMap]
    /\ results = EmptyMap
    /\ failedTasks = EmptyMap
    /\ legacyTasks = << >>
    /\ liveWorkers = {1}
    /\ dist = DistIdle
    /\ coll = CollIdle
    /\ mon = MonIdle
    /\ alive = [w \in WorkerIds |-> w = 1]
    /\ tasksChan = [w \in WorkerIds |-> << >>]
    /\ resultsChan = [w \in WorkerIds |-> IF w = 1 THEN BacklogResults ELSE << >>]
    /\ chk = [w \in WorkerIds |-> ChkIdle]
    /\ exec = [w \in WorkerIds |-> [e \in 1..PoolSize |-> ExecIdle]]
    /\ steal = [w \in WorkerIds |-> StealIdle]
    /\ sched = SchedIdle
    /\ compl = ComplIdle
    /\ hist = HistInit

NextBacklog ==
    \/ CheckRead(1)
    \/ CheckSend(1, 1)
    \/ CheckDel(1)
    \/ \E e \in 1..PoolSize : ExecStart(1, e)
    \/ \E e \in 1..PoolSize : ExecFinish(1, e)
    \/ SubmitResult(1)

SpecBacklog == InitBacklog /\ [][NextBacklog]_vars

\* C37: with no store error and no crash, the result of every task an
\* executor has finished is in the worker's results channel or in its results
\* bucket, also when the channel was full when the executor finished.
C37_ResultQueued ==
    \A i \in 1..Len(hist.done) :
        \/ ResultPending(hist.done[i])
        \/ \E w \in WorkerIds : hist.done[i] \in DOMAIN outbox[w]

\* ScheduleTask next to a completion: task 2 is queued and on its way through
\* worker 1 while ScheduleTask is called for task 1, which depends on it;
\* OnTaskComplete(2) is called once, after task 2's result has reached results.
InitDepRace == InitWith({2}, {1}, {1}, {1})

NextDepRace ==
    \/ SchedCall(1, 1, DefaultMaxRetries, {2})
    \/ SchedCheck(2)
    \/ SchedPark
    \/ SchedTrack(2)
    \/ SchedZAdd
    \/ (2 \in DOMAIN results /\ 2 \notin hist.notified /\ ComplCall(2))
    \/ ComplGet(1)
    \/ ComplCheck(2)
    \/ ComplDel
    \/ ComplZAdd
    \/ ComplCleanup
    \/ Pipeline({1, 2})

SpecDepRace == InitDepRace /\ [][NextDepRace]_vars

\* C38: once ScheduleTask and the OnTaskComplete calls have returned, no task
\* is parked in tasks:waiting whose every dependency has a result and has had
\* its OnTaskComplete call -- whatever the interleaving of the two was.
C38_NoStrandedDependent ==
    (sched.pc = "idle" /\ compl.pc = "idle") =>
        \A id \in DOMAIN waiting :
            ~(/\ waiting[id].deps \subseteq DOMAIN results
              /\ waiting[id].deps \subseteq hist.notified)

\* Submission with any priority: the request's priority is an int that
\* handleSubmitTask copies into the task and into the queue key. For a value
\* outside 1..10 the ZAdd goes to a key (tasks:priority:0, tasks:priority:11)
\* that is none of the ten queues; hist.unscanned holds those keys' entries.
RequestPriorities == {0, 1, NumPriorities, NumPriorities + 1}

SubmitOutOfRange(id, p, r) ==
    /\ id \notin created
    /\ p \notin Priorities
    /\ LET t == [NewTask(id) EXCEPT !.priority = p, !.max_retries = r]
       IN  /\ hist' = [hist EXCEPT !.unscanned = @ \cup {[key |-> p, score |-> now, task |-> t]}]
           /\ created' = created \cup {t.id}
    /\ UNCHANGED <<now, storeVars, coordVars, workerVars, schedVars>>

NextSubmit ==
    \/ \E id \in FreshIds, p \in RequestPriorities \cap Priorities :
         SubmitTask(id, p, DefaultMaxRetries)
    \/ \E id \in FreshIds, p \in RequestPriorities \ Priorities :
         SubmitOutOfRange(id, p, DefaultMaxRetries)
    \/ Pipeline(TaskIds)

\* distributeWork runs on its ticker: it takes every step it is at
SpecSubmit ==
    /\ InitSched
    /\ [][NextSubmit]_vars
    /\ WF_vars(\E order \in Orders(liveWorkers) : DistTick(order))
    /\ WF_vars(DistScan)
    /\ WF_vars(DistAssign)
    /\ WF_vars(DistZRem)

\* the key a submission has put task id on
OnUnscannedKey(id) == \E e \in hist.unscanned : e.task.id = id

\* C39: with a live worker, every task that a submission has accepted and
\* enqueued is eventually assigned: it is in a worker's inbox, or the worker
\* has taken it from there.
C39_AcceptedIsAssigned ==
    \A id \in TaskIds :
        (InSomeQueue(id) \/ OnUnscannedKey(id))
            ~> (\E w \in WorkerIds : id \in DOMAIN inbox[w] \/ id \in hist.taken[w])

\* Entries that do not deserialize on a priority queue: another client of the
\* store has added up to MaxUnparsable members to tasks:priority:1 that are
\* not the JSON of a task. They carry ids below every task id, because a
\* member that does not start with "{" sorts before the JSON of a task at
\* the same score.
MaxUnparsable == 5

UnparsableIds == {0 - i : i \in 1..MaxUnparsable}

ZAddUnparsable(id) ==
    /\ id \notin QueuedIds(1, queues)
    /\ \A j \in UnparsableIds : j > id => j \in QueuedIds(1, queues)
    /\ queues' = [queues EXCEPT ![1] =
                    ZAdd(@, now, [NewTask(id) EXCEPT !.status = "unparsable"])]
    /\ UNCHANGED <<now, created, waiting, depWaiters, registry, inbox, processing,
                   outbox, results, failedTasks, legacyTasks>>
    /\ UNCHANGED <<coordVars, workerVars, schedVars, hist>>

\* distributeWork: json.Unmarshal of the batch's next member fails; the error
\* is logged and the loop continues with the member after it, no ZRem
DistSkip ==
    /\ dist.pc = "assign"
    /\ dist' = IF Tail(dist.batch) = << >> THEN DistNext(dist)
               ELSE [dist EXCEPT !.batch = Tail(@)]
    /\ UNCHANGED <<now, created, storeVars, liveWorkers, coll, mon, workerVars,
                   schedVars, hist>>

NextBlocked ==
    \/ \E id \in FreshIds : SubmitTask(id, 1, DefaultMaxRetries)
    \/ \E id \in UnparsableIds : ZAddUnparsable(id)
    \/ \E order \in Orders(liveWorkers) : DistTick(order)
    \/ DistScan
    \/ /\ dist.pc = "assign"
       /\ IF Parses(Head(dist.batch)) THEN DistAssign ELSE DistSkip
    \/ DistZRem

\* distributeWork runs on its ticker: it takes every step it is at
SpecBlocked ==
    /\ InitSched
    /\ [][NextBlocked]_vars
    /\ WF_vars(\E order \in Orders(liveWorkers) : DistTick(order))
    /\ WF_vars(DistScan)
    /\ WF_vars(dist.pc = "assign"
               /\ IF Parses(Head(dist.batch)) THEN DistAssign ELSE DistSkip)
    /\ WF_vars(DistZRem)

\* C40: with a live worker, every well-formed task on a priority queue is
\* eventually assigned, whatever number of entries that do not deserialize
\* lies before it in the queue.
C40_HeadDoesNotBlock ==
    \A id \in TaskIds :
        InSomeQueue(id) ~> (\E w \in liveWorkers : id \in DOMAIN inbox[w])

=============================================================================
